---- MODULE Spec2Model ----
(***************************************************************************)
(* The tyk-k8s sidecar injector (package injector) and the annotation      *)
(* processor (package processor) as a state machine.                       *)
(*                                                                         *)
(* Text is modelled as a sequence of tokens.  Where the code looks inside  *)
(* a string (strings.ToLower, strings.Replace, the "." separated sjson     *)
(* path, strconv.Atoi) the tokens are single characters; an annotation key *)
(* is the token of its prefix up to and including "/" followed by the      *)
(* tokens of its name.                                                     *)
(***************************************************************************)
EXTENDS Integers, Sequences, FiniteSets, TLC

VARIABLES
    cfg,     \* WebhookServer.SidecarConfig: CreateRoutes, EnableMeshTLS, MeshCertificateID
    tpl,     \* SidecarConfig.Containers / InitContainers, shared by every request
    gw,      \* the gateway: API definitions and certificate store
    castore, \* the CA client's store of certificate references
    wk,      \* per worker: the position and the locals of the admission call it serves
    active,  \* the workers the transport dispatches calls on
    ncalls,  \* admission calls received so far
    fn       \* the function under check in the specifications of the pure functions

vars == <<cfg, tpl, gw, castore, wk, active, ncalls, fn>>

----------------------------------------------------------------------------
(* Bounds of the model *)

\* admission calls received in one behaviour
MaxCalls == 2
\* ports a Service arrives with: 0..MaxPorts
MaxPorts == 2
\* annotation entries handed to Process in the specification of the processor
MaxEntries == 3

----------------------------------------------------------------------------
(* Text *)

UpperCase == <<"A","B","C","D","E","F","G","H","I","J","K","L","M",
               "N","O","P","Q","R","S","T","U","V","W","X","Y","Z">>
LowerCase == <<"a","b","c","d","e","f","g","h","i","j","k","l","m",
               "n","o","p","q","r","s","t","u","v","w","x","y","z">>

ToLowerChar(c) ==
    IF \E i \in 1..26 : UpperCase[i] = c
    THEN LowerCase[CHOOSE i \in 1..26 : UpperCase[i] = c]
    ELSE c

\* strings.ToLower
ToLower(s) == [i \in 1..Len(s) |-> ToLowerChar(s[i])]

\* strings.Replace(s, old, new, -1) for one-character old and new
ReplaceAll(s, old, new) == [i \in 1..Len(s) |-> IF s[i] = old THEN new ELSE s[i]]

\* the empty string
Empty == <<>>

\* m[k] of a Go map[string]string: the zero value when the key is absent
Lookup(m, k) == IF k \in DOMAIN m THEN m[k] ELSE Empty

\* m[k] = v
MapSet(m, k, v) == [x \in DOMAIN m \cup {k} |-> IF x = k THEN v ELSE m[x]]

\* delete(m, k)
MapDelete(m, k) == [x \in DOMAIN m \ {k} |-> m[x]]

\* the map with no entry
EmptyMap == [x \in {} |-> Empty]

----------------------------------------------------------------------------
(* Constants of package injector *)

AdmissionWebhookAnnotationInjectKey == <<"injector.tyk.io/", "inject">>
admissionWebhookAnnotationRouteKey == <<"injector.tyk.io/", "route">>
AdmissionWebhookAnnotationStatusKey == <<"injector.tyk.io/", "status">>
AdmissionWebhookAnnotationInboundServiceIDKey == <<"injector.tyk.io/", "inbound-service-id">>
AdmissionWebhookAnnotationMeshServiceIDKey == <<"injector.tyk.io/", "mesh-service-id">>

ignoredNamespaces == <<"kube-system", "kube-public">>

sInjected == <<"i","n","j","e","c","t","e","d">>
sY == <<"y">>
sYes == <<"y","e","s">>
sTrue == <<"t","r","u","e">>
sFalse == <<"f","a","l","s","e">>
sOn == <<"o","n">>

----------------------------------------------------------------------------
(* Mutation policy *)

\* metadata.GetAnnotations(): a nil map reads as the empty map
GetAnnotations(metadata) ==
    IF metadata.AnnotationsNil THEN EmptyMap ELSE metadata.Annotations

mutationRequiredNoNamespaceCheck(ignoredList, metadata) ==
    LET annotations == GetAnnotations(metadata)
        status == Lookup(annotations, AdmissionWebhookAnnotationStatusKey)
    IN  IF ToLower(status) = sInjected
        THEN FALSE
        ELSE ToLower(Lookup(annotations, AdmissionWebhookAnnotationInjectKey))
                 \in {sY, sYes, sTrue, sOn}

mutationRequiredNoStatusCheck(ignoredList, metadata) ==
    IF \E i \in 1..Len(ignoredList) : metadata.Namespace = ignoredList[i]
    THEN FALSE
    ELSE ToLower(Lookup(GetAnnotations(metadata), AdmissionWebhookAnnotationInjectKey))
             \in {sY, sYes, sTrue, sOn}

mutationRequiredCaseSensitive(ignoredList, metadata) ==
    IF \E i \in 1..Len(ignoredList) : metadata.Namespace = ignoredList[i]
    THEN FALSE
    ELSE LET annotations == GetAnnotations(metadata)
             status == Lookup(annotations, AdmissionWebhookAnnotationStatusKey)
         IN  IF ToLower(status) = sInjected
             THEN FALSE
             ELSE Lookup(annotations, AdmissionWebhookAnnotationInjectKey)
                      \in {sY, sYes, sTrue, sOn}

mutationRequired(ignoredList, metadata) ==
    IF \E i \in 1..Len(ignoredList) : metadata.Namespace = ignoredList[i]
    THEN FALSE
    ELSE LET annotations == GetAnnotations(metadata)
             status == Lookup(annotations, AdmissionWebhookAnnotationStatusKey)
         IN  IF ToLower(status) = sInjected
             THEN FALSE
             ELSE ToLower(Lookup(annotations, AdmissionWebhookAnnotationInjectKey))
                      \in {sY, sYes, sTrue, sOn}

----------------------------------------------------------------------------
(* JSON documents: the API definition text that package processor edits.   *)
(* A value is [t, v]: t one of "string", "bool", "num", "object", "array", *)
(* "null"; v the Go value, an object being a function from its keys.       *)

JStr(s) == [t |-> "string", v |-> s]
JBool(b) == [t |-> "bool", v |-> b]
JNum(n) == [t |-> "num", v |-> n]
JObj(f) == [t |-> "object", v |-> f]
JArr(q) == [t |-> "array", v |-> q]
JNull == [t |-> "null", v |-> <<>>]
\* what gjson.Get gives for a path that does not exist
JAbsent == [t |-> "absent", v |-> <<>>]

EmptyDoc == JObj(EmptyMap)
\* the empty text "", which sjson.Set returns with an error
NoText == [t |-> "none", v |-> <<>>]

Digits == <<"0","1","2","3","4","5","6","7","8","9">>
IsDigit(c) == \E i \in 1..10 : Digits[i] = c
DigitVal(c) == (CHOOSE i \in 1..10 : Digits[i] = c) - 1

RECURSIVE DigitsVal(_)
DigitsVal(s) ==
    IF s = <<>> THEN 0
    ELSE 10 * DigitsVal(SubSeq(s, 1, Len(s) - 1)) + DigitVal(s[Len(s)])

\* strconv.Atoi: an optional sign and one or more decimal digits
Atoi(s) ==
    LET signed == Len(s) > 0 /\ s[1] \in {"+", "-"}
        body == IF signed THEN Tail(s) ELSE s
    IN  IF Len(body) > 0 /\ \A i \in 1..Len(body) : IsDigit(body[i])
        THEN [ok |-> TRUE,
              v |-> IF signed /\ s[1] = "-" THEN 0 - DigitsVal(body) ELSE DigitsVal(body)]
        ELSE [ok |-> FALSE, v |-> 0]

StartsWith(s, p) == Len(s) >= Len(p) /\ SubSeq(s, 1, Len(p)) = p
Drop(s, n) == SubSeq(s, n + 1, Len(s))

ParseFail == [ok |-> FALSE, v |-> JNull, rest |-> <<>>]

\* the letters and digits of a JSON string up to its closing quote
RECURSIVE ScanString(_, _)
ScanString(s, acc) ==
    IF s = <<>> THEN ParseFail
    ELSE IF s[1] = "\"" THEN [ok |-> TRUE, v |-> JStr(acc), rest |-> Tail(s)]
    ELSE ScanString(Tail(s), Append(acc, s[1]))

RECURSIVE ScanDigits(_, _)
ScanDigits(s, acc) ==
    IF s # <<>> /\ IsDigit(s[1]) THEN ScanDigits(Tail(s), Append(acc, s[1]))
    ELSE [ok |-> acc # <<>>, v |-> JNum(DigitsVal(acc)), rest |-> s]

\* encoding/json's decoder on text without white space, escapes, fractions
\* or exponents: objects, arrays, strings, unsigned integers, true, false, null
RECURSIVE ParseValue(_), ParseMembers(_, _), ParseElements(_, _)
ParseValue(s) ==
    IF s = <<>> THEN ParseFail
    ELSE IF s[1] = "{" THEN
        IF Len(s) >= 2 /\ s[2] = "}"
        THEN [ok |-> TRUE, v |-> EmptyDoc, rest |-> Drop(s, 2)]
        ELSE ParseMembers(Tail(s), EmptyMap)
    ELSE IF s[1] = "[" THEN
        IF Len(s) >= 2 /\ s[2] = "]"
        THEN [ok |-> TRUE, v |-> JArr(<<>>), rest |-> Drop(s, 2)]
        ELSE ParseElements(Tail(s), <<>>)
    ELSE IF s[1] = "\"" THEN ScanString(Tail(s), <<>>)
    ELSE IF IsDigit(s[1]) THEN ScanDigits(s, <<>>)
    ELSE IF StartsWith(s, sTrue) THEN [ok |-> TRUE, v |-> JBool(TRUE), rest |-> Drop(s, 4)]
    ELSE IF StartsWith(s, sFalse) THEN [ok |-> TRUE, v |-> JBool(FALSE), rest |-> Drop(s, 5)]
    ELSE IF StartsWith(s, <<"n","u","l","l">>)
        THEN [ok |-> TRUE, v |-> JNull, rest |-> Drop(s, 4)]
    ELSE ParseFail

\* "key":value pairs after "{" or ",", up to the closing "}"
ParseMembers(s, acc) ==
    IF s = <<>> \/ s[1] # "\"" THEN ParseFail
    ELSE LET k == ScanString(Tail(s), <<>>)
         IN  IF ~k.ok \/ k.rest = <<>> \/ k.rest[1] # ":" THEN ParseFail
             ELSE LET e == ParseValue(Tail(k.rest))
                  IN  IF ~e.ok \/ e.rest = <<>> THEN ParseFail
                      ELSE LET m == MapSet(acc, k.v.v, e.v)
                           IN  IF e.rest[1] = "}"
                               THEN [ok |-> TRUE, v |-> JObj(m), rest |-> Tail(e.rest)]
                               ELSE IF e.rest[1] = ","
                               THEN ParseMembers(Tail(e.rest), m)
                               ELSE ParseFail

\* values after "[" or ",", up to the closing "]"
ParseElements(s, acc) ==
    LET e == ParseValue(s)
    IN  IF ~e.ok \/ e.rest = <<>> THEN ParseFail
        ELSE IF e.rest[1] = "]"
        THEN [ok |-> TRUE, v |-> JArr(Append(acc, e.v)), rest |-> Tail(e.rest)]
        ELSE IF e.rest[1] = ","
        THEN ParseElements(Tail(e.rest), Append(acc, e.v))
        ELSE ParseFail

\* json.Unmarshal([]byte(val), &d) for d a map[string]interface{} (want =
\* "object") or a []interface{} (want = "array"), both made empty: the text
\* must be one whole JSON value of that kind; null leaves d as made
Unmarshal(val, want) ==
    LET p == ParseValue(val)
        made == IF want = "object" THEN EmptyDoc ELSE JArr(<<>>)
    IN  IF ~p.ok \/ p.rest # <<>> THEN [ok |-> FALSE, v |-> made]
        ELSE IF p.v.t = "null" THEN [ok |-> TRUE, v |-> made]
        ELSE IF p.v.t = want THEN [ok |-> TRUE, v |-> p.v]
        ELSE [ok |-> FALSE, v |-> made]

\* the parts of an sjson path, separated by "."
RECURSIVE SplitPath(_, _)
SplitPath(s, cur) ==
    IF s = <<>> THEN <<cur>>
    ELSE IF s[1] = "." THEN <<cur>> \o SplitPath(Tail(s), <<>>)
    ELSE SplitPath(Tail(s), Append(cur, s[1]))

\* sjson's appendRawPaths: write val at parts below j, the value now there.
\* An object keeps its other keys; a scalar or a missing value is replaced
\* by a new object; an array takes no part that is not a number.
RECURSIVE SetAt(_, _, _)
SetAt(j, parts, val) ==
    LET k == parts[1]
        base == IF j.t = "object" THEN j.v ELSE EmptyMap
        child == IF k \in DOMAIN base THEN base[k] ELSE JAbsent
    IN  IF j.t = "array" THEN [ok |-> FALSE, v |-> j]
        ELSE IF Len(parts) = 1 THEN [ok |-> TRUE, v |-> JObj(MapSet(base, k, val))]
        ELSE LET sub == SetAt(child, Tail(parts), val)
             IN  IF sub.ok THEN [ok |-> TRUE, v |-> JObj(MapSet(base, k, sub.v))]
                 ELSE [ok |-> FALSE, v |-> j]

\* gjson.Get: the value at parts below j
RECURSIVE GetAt(_, _)
GetAt(j, parts) ==
    IF parts = <<>> THEN j
    ELSE IF j.t = "object" /\ parts[1] \in DOMAIN j.v THEN GetAt(j.v[parts[1]], Tail(parts))
    ELSE JAbsent

\* sjson.Set(def, pth, val): ("", error) on an error
sjsonSet(def, pth, val) ==
    IF pth = <<>> THEN [def |-> NoText, err |-> "path cannot be empty"]
    ELSE LET r == SetAt(def, SplitPath(pth, <<>>), val)
         IN  IF r.ok THEN [def |-> r.v, err |-> ""]
             ELSE [def |-> NoText, err |-> "cannot set array element for non-numeric key"]

----------------------------------------------------------------------------
(* Package processor *)

ValueSetStringKey == "string.service.tyk.io/"
ValueSetBoolKey == "bool.service.tyk.io/"
ValueSetNumKey == "num.service.tyk.io/"
ObjectSetKey == "object.service.tyk.io/"
ArraySetKey == "array.service.tyk.io/"

\* strings.HasPrefix(k, string(t)) for t one of the five prefixes
HasPrefix(k, t) == Len(k) >= 1 /\ k[1] = t

\* key[len(string(t)):]
StripPrefix(k) == Tail(k)

\* the switch of set with every bool literal but "true" read as false
setSwitchLenientBool(pth, val, def, t) ==
    IF t = ValueSetStringKey THEN sjsonSet(def, pth, JStr(val))
    ELSE IF t = ValueSetBoolKey THEN sjsonSet(def, pth, JBool(ToLower(val) = sTrue))
    ELSE IF t = ValueSetNumKey THEN
        LET d == Atoi(val)
        IN  IF ~d.ok THEN [def |-> def, err |-> "strconv.Atoi: invalid syntax"]
            ELSE sjsonSet(def, pth, JNum(d.v))
    ELSE IF t = ObjectSetKey THEN
        LET d == Unmarshal(val, "object")
        IN  IF ~d.ok THEN [def |-> def, err |-> "json: cannot unmarshal"]
            ELSE sjsonSet(def, pth, d.v)
    ELSE IF t = ArraySetKey THEN
        LET d == Unmarshal(val, "array")
        IN  IF ~d.ok THEN [def |-> def, err |-> "json: cannot unmarshal"]
            ELSE sjsonSet(def, pth, d.v)
    ELSE [def |-> def, err |-> "unsupported type"]

\* the switch of set, lines 30-75, on the path pth it is given
setSwitch(pth, val, def, t) ==
    IF t = ValueSetStringKey THEN sjsonSet(def, pth, JStr(val))
    ELSE IF t = ValueSetBoolKey THEN
        IF ToLower(val) = sTrue THEN sjsonSet(def, pth, JBool(TRUE))
        ELSE IF ToLower(val) = sFalse THEN sjsonSet(def, pth, JBool(FALSE))
        ELSE [def |-> def, err |-> "unsupported bool value"]
    ELSE IF t = ValueSetNumKey THEN
        LET d == Atoi(val)
        IN  IF ~d.ok THEN [def |-> def, err |-> "strconv.Atoi: invalid syntax"]
            ELSE sjsonSet(def, pth, JNum(d.v))
    ELSE IF t = ObjectSetKey THEN
        LET d == Unmarshal(val, "object")
        IN  IF ~d.ok THEN [def |-> def, err |-> "json: cannot unmarshal"]
            ELSE sjsonSet(def, pth, d.v)
    ELSE IF t = ArraySetKey THEN
        LET d == Unmarshal(val, "array")
        IN  IF ~d.ok THEN [def |-> def, err |-> "json: cannot unmarshal"]
            ELSE sjsonSet(def, pth, d.v)
    ELSE [def |-> def, err |-> "unsupported type"]

\* set with the "-" of the path left as they are
setKeepDashes(key, val, def, t) == setSwitch(StripPrefix(key), val, def, t)

set(key, val, def, t) ==
    setSwitch(ReplaceAll(StripPrefix(key), "-", "_"), val, def, t)

\* the five prefix tests of one turn of Process's loop, in the code's order;
\* a key has at most one of the prefixes, a key with none leaves def alone
ProcessEntry(k, v, def) ==
    IF HasPrefix(k, ValueSetStringKey) THEN set(k, v, def, ValueSetStringKey)
    ELSE IF HasPrefix(k, ValueSetNumKey) THEN set(k, v, def, ValueSetNumKey)
    ELSE IF HasPrefix(k, ValueSetBoolKey) THEN set(k, v, def, ValueSetBoolKey)
    ELSE IF HasPrefix(k, ArraySetKey) THEN set(k, v, def, ArraySetKey)
    ELSE IF HasPrefix(k, ObjectSetKey) THEN set(k, v, def, ObjectSetKey)
    ELSE [def |-> def, err |-> ""]

\* Process(ann, def): every (def, err) it can return, one per order in which
\* `range ann` may visit the keys
RECURSIVE ProcessFrom(_, _, _)
ProcessFrom(ann, todo, def) ==
    IF todo = {} THEN {[def |-> def, err |-> ""]}
    ELSE UNION {
        LET r == ProcessEntry(k, ann[k], def)
        IN  IF r.err # "" THEN {r} ELSE ProcessFrom(ann, todo \ {k}, r.def)
        : k \in todo }

Process(ann, def) == ProcessFrom(ann, DOMAIN ann, def)

----------------------------------------------------------------------------
(* The gateway and the CA, as the injector sees them *)

ApiId(n) == <<"api", Digits[n + 1]>>
CertId(n) == <<"cert", Digits[n + 1]>>

\* the definitions the gateway holds under a slug
BySlug(g, slug) == {i \in 1..Len(g.apis) : g.apis[i].Slug = slug}
\* the definitions the gateway holds under an object ID
ByObjectID(g, id) == {i \in 1..Len(g.apis) : g.apis[i].Id = id}

\* the gateway after CreateService(opts) succeeded with a new definition
AddService(g, opts) ==
    [g EXCEPT !.apis = Append(@, [Id |-> ApiId(Len(g.apis) + 1),
                                  Slug |-> opts.Slug,
                                  Domain |-> opts.Hostname,
                                  Certificates |-> <<>>])]

\* the API definition template CreateService renders before it runs Process
TemplatedDef == EmptyDoc

\* the errors CreateService(opts) can return from processing opts.Annotations
\* (the mesh options carry none)
CreateServiceProcessErrors(opts) ==
    IF opts.AnnotationsNil THEN {}
    ELSE {r.err : r \in {x \in Process(opts.Annotations, TemplatedDef) : x.err # ""}}

\* whether some order of processing opts.Annotations ends without an error
CreateServiceProcessCanPass(opts) ==
    opts.AnnotationsNil
    \/ \E r \in Process(opts.Annotations, TemplatedDef) : r.err = ""

----------------------------------------------------------------------------
(* The requests the API server sends *)

kPod == <<"P","o","d">>
kService == <<"S","e","r","v","i","c","e">>
kDeployment == <<"D","e","p","l","o","y","m","e","n","t">>
sPodLower == <<"p","o","d">>
sServiceLower == <<"s","e","r","v","i","c","e">>
sTykMesh == <<"t","y","k","-","m","e","s","h">>

KeyEnabled == <<ValueSetBoolKey, "e","n","a","b","l","e","d">>
sMaybe == <<"m","a","y","b","e">>
Chars_foo == <<"f","o","o">>
KeyNumFoo == <<ValueSetNumKey>> \o Chars_foo
sInjectedMixed == <<"I","n","j","e","c","t","e","d">>
sNo == <<"n","o">>
\* the inbound-service-id a Pod arrives with: the ID of the first definition
\* the gateway creates, unknown to a gateway that holds none
PresetInboundID == ApiId(1)

Namespaces == {"", "default", "kube-system"}

\* a map from the entries given as a set of <<key, value>> with distinct keys
MapOf(entries) ==
    [k \in {e[1] : e \in entries} |-> (CHOOSE e \in entries : e[1] = k)[2]]

InjectChoices == {{}, {<<AdmissionWebhookAnnotationInjectKey, sTrue>>},
                  {<<AdmissionWebhookAnnotationInjectKey, sNo>>}}
StatusChoices == {{}, {<<AdmissionWebhookAnnotationStatusKey, sInjectedMixed>>}}
InboundChoices == {{}, {<<AdmissionWebhookAnnotationInboundServiceIDKey, PresetInboundID>>}}
TypedChoices ==
    {{}, {<<KeyEnabled, sMaybe>>}, {<<KeyEnabled, sTrue>>},
     {<<KeyEnabled, sMaybe>>, <<KeyNumFoo, <<"2","x">>>>}}

NilMeta(ns) == [Namespace |-> ns, AnnotationsNil |-> TRUE, Annotations |-> EmptyMap]

PodAnnotationChoices ==
    {MapOf(i \cup s \cup b \cup t) :
        i \in InjectChoices, s \in StatusChoices, b \in InboundChoices, t \in TypedChoices}

\* a Pod as decoded from req.Object.Raw: one container of its own
PodOf(ns, labels, annNil, ann) ==
    [Kind |-> "Pod", Namespace |-> ns, GenerateName |-> "web-", Labels |-> labels,
     AnnotationsNil |-> annNil, Annotations |-> ann,
     Spec |-> [Containers |-> <<[Name |-> <<"a","p","p">>, Env |-> <<>>,
                                 EnvOf |-> 0, VolumeMounts |-> <<>>]>>,
               InitContainers |-> <<>>, HostAliases |-> <<>>, Volumes |-> <<>>]]

LabelChoices == {EmptyMap, [k \in {"app"} |-> "orders"]}

Pods ==
    {PodOf(ns, l, FALSE, a) : ns \in Namespaces, l \in LabelChoices, a \in PodAnnotationChoices}
    \cup {PodOf(ns, l, TRUE, EmptyMap) : ns \in Namespaces, l \in LabelChoices}

\* a Service as decoded from req.Object.Raw, with its ports
ServiceOf(ns, annNil, ann, nports) ==
    [Kind |-> "Service", Namespace |-> ns, AnnotationsNil |-> annNil, Annotations |-> ann,
     Spec |-> [Ports |-> [i \in 1..nports |-> [Name |-> "http", Port |-> 80 + i]]]]

Services ==
    {ServiceOf(ns, FALSE, MapOf(i \cup s), n) :
        ns \in Namespaces, i \in InjectChoices, s \in StatusChoices, n \in 0..MaxPorts}
    \cup {ServiceOf(ns, TRUE, EmptyMap, n) : ns \in Namespaces, n \in 0..MaxPorts}

NoObject == [Kind |-> "none"]

\* body: what Serve reads ("empty", "ok"); contentType: the header; decodes:
\* whether the body decodes as an AdmissionReview; hasRequest: whether the
\* review decoded has its request (ar.Request is not nil); objectDecodes:
\* whether req.Object.Raw unmarshals; Kind: req.Kind.Kind; Object: what it
\* unmarshals to
RequestOf(body, ctype, decodes, hasRequest, kind, objectDecodes, object) ==
    [body |-> body, contentType |-> ctype, decodes |-> decodes, hasRequest |-> hasRequest,
     Kind |-> kind, objectDecodes |-> objectDecodes, Object |-> object]

Requests ==
    {RequestOf("empty", "application/json", FALSE, FALSE, kPod, FALSE, NoObject),
     RequestOf("ok", "text/plain", FALSE, FALSE, kPod, FALSE, NoObject),
     RequestOf("ok", "application/json", FALSE, FALSE, kPod, FALSE, NoObject),
     RequestOf("ok", "application/json", TRUE, FALSE, Empty, FALSE, NoObject),
     RequestOf("ok", "application/json", TRUE, TRUE, kDeployment, FALSE, NoObject),
     RequestOf("ok", "application/json", TRUE, TRUE, kPod, FALSE, NoObject),
     RequestOf("ok", "application/json", TRUE, TRUE, kService, FALSE, NoObject)}
    \cup {RequestOf("ok", "application/json", TRUE, TRUE, kPod, TRUE, p) : p \in Pods}
    \cup {RequestOf("ok", "application/json", TRUE, TRUE, kService, TRUE, x) : x \in Services}

\* the requests of the runs with two calls at once: opted-in Pods of one
\* namespace, with and without the app label
ConcurrentRequests ==
    {RequestOf("ok", "application/json", TRUE, TRUE, kPod, TRUE,
               PodOf("default", l, FALSE,
                     MapOf({<<AdmissionWebhookAnnotationInjectKey, sTrue>>}))) :
        l \in LabelChoices}

----------------------------------------------------------------------------
(* The state after construction *)

Workers == {1, 2}

\* the tag variable of the tyk-mesh container
tagVarName == "TYK_GW_DBAPPCONFOPTIONS_TAGS"
meshTag == "mesh"

\* the sidecar template as loadConfig reads it: a tyk-mesh container with or
\* without the tag variable, and an init container
TemplateOf(env) ==
    [Containers |-> <<[Name |-> <<"T","y","k","-","M","e","s","h">>, Env |-> env,
                       EnvOf |-> 0, VolumeMounts |-> <<>>]>>,
     InitContainers |-> <<[Name |-> <<"i","n","i","t">>, Env |-> <<>>,
                           EnvOf |-> 0, VolumeMounts |-> <<>>]>>]

Templates ==
    {TemplateOf(<<>>),
     TemplateOf(<<[Name |-> "LOG", Value |-> <<"info">>],
                  [Name |-> tagVarName, Value |-> <<"mesh,", "template">>]>>)}

Configs ==
    {[CreateRoutes |-> r, EnableMeshTLS |-> t, MeshCertificateID |-> c] :
        r \in BOOLEAN, t \in BOOLEAN, c \in {Empty, <<"byo">>}}

NoResponse == [kind |-> "none"]

\* no call of createServiceRoutes so far in this admission call
NoRoutes == [st |-> "none", given |-> EmptyMap, returned |-> EmptyMap, err |-> <<>>,
             missed |-> {}]

\* no certificate saga under way
NoSaga == [phase |-> "none", sid |-> Empty, byo |-> Empty, certID |-> Empty,
           hostname |-> Empty, aDef |-> [Id |-> Empty]]

\* a worker between two calls
Idle ==
    [pc |-> "idle", uid |-> 0, req |-> RequestOf("empty", "", FALSE, FALSE, Empty, FALSE, NoObject),
     obj |-> NoObject, resp |-> NoResponse, out |-> NoResponse, calls |-> <<>>,
     required |-> "unknown", routes |-> NoRoutes, saga |-> NoSaga,
     errs |-> <<>>, gw0 |-> [apis |-> <<>>, certs |-> {}], ca0 |-> {},
     again |-> FALSE]

NoFn == [op |-> "none"]

Init ==
    /\ cfg \in {c \in Configs : ~c.EnableMeshTLS => c.MeshCertificateID = Empty}
    /\ tpl \in Templates
    /\ gw = [apis |-> <<>>, certs |-> {}]
    /\ castore = {}
    /\ wk = [w \in Workers |-> Idle]
    /\ active = {1}
    /\ ncalls = 0
    /\ fn = NoFn

\* wk with worker w's record replaced by r
Put(w, r) == wk' = [wk EXCEPT ![w] = r]

\* the error response with Allowed set
DeniedButAllowed(msg) ==
    [kind |-> "review", Allowed |-> TRUE, Message |-> msg, Patch |-> <<>>,
     PatchType |-> "", UID |-> 0]

\* an AdmissionResponse that carries only a message
Denied(msg) ==
    [kind |-> "review", Allowed |-> FALSE, Message |-> msg, Patch |-> <<>>,
     PatchType |-> "", UID |-> 0]

\* an AdmissionResponse{Allowed: true} with the patch given (none: <<>>)
AllowedWith(patch) ==
    [kind |-> "review", Allowed |-> TRUE, Message |-> <<>>, Patch |-> patch,
     PatchType |-> IF patch = <<>> THEN "" ELSE "JSONPatch", UID |-> 0]

\* a handler returns the response that carries err.Error(); me.errs keeps
\* the errors the call has met
ErrorReturn(me, err) ==
    [me EXCEPT !.pc = "respond", !.resp = Denied(err), !.errs = Append(@, err)]

\* the transport hands a request to a free worker
Receive(w) ==
    /\ w \in active
    /\ wk[w].pc = "idle"
    /\ ncalls < MaxCalls
    /\ \E r \in IF active = Workers THEN ConcurrentRequests ELSE Requests :
        Put(w, [Idle EXCEPT !.pc = "serve", !.req = r, !.uid = ncalls + 1,
                           !.gw0 = gw, !.ca0 = castore])
    /\ ncalls' = ncalls + 1
    /\ UNCHANGED <<cfg, tpl, gw, castore, active, fn>>

\* one operation of a patch applied to the object it was returned for, as the
\* API server applies the JSON patch of the response: the operations are
\* those createPatch (lines 323-326), updateAnnotation (lines 177-181) and
\* mutateService (lines 198-208) build.  The object that results is decoded
\* anew, so its containers own their environment.
ApplyOp(obj, op) ==
    IF op.op = "replace" /\ op.path = "/spec"
    THEN [obj EXCEPT !.Spec =
            [op.value EXCEPT !.Containers =
                [i \in 1..Len(op.value.Containers) |->
                    [op.value.Containers[i] EXCEPT !.EnvOf = 0]]]]
    ELSE IF op.op = "add" /\ op.path = "/metadata/annotations"
    THEN [obj EXCEPT !.Annotations = op.value, !.AnnotationsNil = FALSE]
    ELSE IF op.op = "replace" /\ op.path = "/spec/ports/0"
    THEN [obj EXCEPT !.Spec.Ports = [@ EXCEPT ![1] = op.value]]
    ELSE obj

\* the operation can be applied and leaves an object of the same kind: a
\* replace needs its target to exist, and an add of one port at /spec/ports
\* puts a port where the list of ports is, which is no Service
OpApplies(obj, op) ==
    \/ op.op = "replace" /\ op.path = "/spec"
    \/ op.op = "add" /\ op.path = "/metadata/annotations"
    \/ op.op = "replace" /\ op.path = "/spec/ports/0" /\ Len(obj.Spec.Ports) >= 1

RECURSIVE Applied(_, _)
Applied(obj, patch) ==
    IF patch = <<>> THEN obj
    ELSE Applied(ApplyOp(obj, Head(patch)), Tail(patch))

PatchApplies(obj, patch) ==
    \A i \in 1..Len(patch) : OpApplies(obj, patch[i])

\* the patch of an answered call has been applied and the object that
\* results comes back in a later admission call (an update of the object)
Resubmit(w) ==
    /\ w \in active
    /\ wk[w].pc = "done"
    /\ ncalls < MaxCalls
    /\ LET me == wk[w]
       IN  /\ me.out.kind = "review"
           /\ me.out.Allowed
           /\ me.out.Patch # <<>>
           /\ PatchApplies(me.req.Object, me.out.Patch)
           /\ Put(w, [Idle EXCEPT !.pc = "serve",
                                  !.req = [me.req EXCEPT
                                              !.Object = Applied(@, me.out.Patch)],
                                  !.uid = ncalls + 1, !.gw0 = gw, !.ca0 = castore,
                                  !.again = TRUE])
    /\ ncalls' = ncalls + 1
    /\ UNCHANGED <<cfg, tpl, gw, castore, active, fn>>

\* Serve up to the call of mutate, and mutate's switch on the kind. A review
\* that decoded without a request makes mutate read req.Kind through a nil
\* pointer (line 665): the handler panics, net/http recovers and closes the
\* connection, and nothing is written.
Serve(w) ==
    /\ wk[w].pc = "serve"
    /\ LET me == wk[w]
           r == me.req
       IN  IF r.body = "empty"
           THEN Put(w, [me EXCEPT !.pc = "done", !.out = [kind |-> "http", code |-> 400]])
           ELSE IF r.contentType # "application/json"
           THEN Put(w, [me EXCEPT !.pc = "done", !.out = [kind |-> "http", code |-> 415]])
           ELSE IF ~r.decodes
           THEN Put(w, ErrorReturn(me, <<"can't decode body">>))
           ELSE IF ~r.hasRequest
           THEN Put(w, [me EXCEPT !.pc = "done", !.out = [kind |-> "panic"]])
           ELSE IF ToLower(r.Kind) = sPodLower THEN Put(w, [me EXCEPT !.pc = "pod"])
           ELSE IF ToLower(r.Kind) = sServiceLower THEN Put(w, [me EXCEPT !.pc = "service"])
           ELSE Put(w, ErrorReturn(me, <<"type not supported">>))
    /\ UNCHANGED <<cfg, tpl, gw, castore, active, ncalls, fn>>

\* the end of Serve with the UID left out of the response
RespondNoUID(w) ==
    /\ wk[w].pc = "respond"
    /\ Put(w, [wk[w] EXCEPT !.pc = "done", !.out = wk[w].resp])
    /\ UNCHANGED <<cfg, tpl, gw, castore, active, ncalls, fn>>

\* the end of Serve, lines 717-733: the response gets ar.Request.UID when
\* ar.Request is not nil, and is written. A review that decoded has its
\* Request; after a failed Decode ar holds whatever the decoder filled in
\* before it gave up: no Request (a body that is not a review at all), or a
\* Request with the UID already read.
Respond(w) ==
    /\ wk[w].pc = "respond"
    /\ \E u \in IF wk[w].req.decodes THEN {wk[w].uid} ELSE {0, wk[w].uid} :
        Put(w, [wk[w] EXCEPT !.pc = "done", !.out = [wk[w].resp EXCEPT !.UID = u]])
    /\ UNCHANGED <<cfg, tpl, gw, castore, active, ncalls, fn>>

\* the handler has returned; the worker is free for the next call
Finish(w) ==
    /\ wk[w].pc = "done"
    /\ Put(w, Idle)
    /\ UNCHANGED <<cfg, tpl, gw, castore, active, ncalls, fn>>

\* annotations[StatusKey] = "injected"; delete(annotations, InjectKey), on the
\* object's own map
MarkInjected(obj) ==
    [obj EXCEPT !.Annotations =
        MapDelete(MapSet(@, AdmissionWebhookAnnotationStatusKey, sInjected),
                  AdmissionWebhookAnnotationInjectKey)]

sidecarPort == 8080

mutateServiceAlwaysReplace(svc) ==
    <<[op |-> "replace", path |-> "/spec/ports/0",
       value |-> [Name |-> "tyk-sidecar", Port |-> sidecarPort, TargetPort |-> sidecarPort]]>>

mutateService(svc) ==
    <<[op |-> IF Len(svc.Spec.Ports) > 1 THEN "add" ELSE "replace",
       path |-> IF Len(svc.Spec.Ports) > 1 THEN "/spec/ports" ELSE "/spec/ports/0",
       value |-> [Name |-> "tyk-sidecar", Port |-> sidecarPort, TargetPort |-> sidecarPort]]>>

\* processServiceMutations; createPatch with svc != nil returns the marshalled
\* patch of mutateService.  json.Marshal has no error to give on a patch of
\* these values, so the err != nil return after createPatch is never taken.
processServiceMutations(w) ==
    /\ wk[w].pc = "service"
    /\ LET me == wk[w]
           r == me.req
       IN  IF ~r.objectDecodes
           THEN Put(w, ErrorReturn(me, <<"json: cannot unmarshal">>))
           ELSE IF ~mutationRequired(ignoredNamespaces, r.Object)
           THEN Put(w, [me EXCEPT !.pc = "respond", !.obj = r.Object,
                                  !.required = "no", !.resp = AllowedWith(<<>>)])
           ELSE IF r.Object.AnnotationsNil
           THEN Put(w, [me EXCEPT !.pc = "panic", !.obj = r.Object, !.required = "yes"])
           ELSE Put(w, [me EXCEPT !.pc = "respond", !.obj = MarkInjected(r.Object),
                                  !.required = "yes",
                                  !.resp = AllowedWith(mutateService(r.Object))])
    /\ UNCHANGED <<cfg, tpl, gw, castore, active, ncalls, fn>>

\* processPodMutations without the return after the policy check
processPodMutationsNoSkip(w) ==
    /\ wk[w].pc = "pod"
    /\ LET me == wk[w]
           r == me.req
       IN  IF ~r.objectDecodes
           THEN Put(w, ErrorReturn(me, <<"json: cannot unmarshal">>))
           ELSE IF r.Object.AnnotationsNil
           THEN Put(w, [me EXCEPT !.pc = "panic", !.obj = r.Object, !.required = "yes"])
           ELSE Put(w, [me EXCEPT !.pc = IF cfg.CreateRoutes THEN "routes" ELSE "tls",
                                  !.obj = MarkInjected(r.Object),
                                  !.required =
                                      IF mutationRequired(ignoredNamespaces, r.Object)
                                      THEN "yes" ELSE "no"])
    /\ UNCHANGED <<cfg, tpl, gw, castore, active, ncalls, fn>>

\* processPodMutations up to the call of createServiceRoutes
processPodMutations(w) ==
    /\ wk[w].pc = "pod"
    /\ LET me == wk[w]
           r == me.req
       IN  IF ~r.objectDecodes
           THEN Put(w, ErrorReturn(me, <<"json: cannot unmarshal">>))
           ELSE IF ~mutationRequired(ignoredNamespaces, r.Object)
           THEN Put(w, [me EXCEPT !.pc = "respond", !.obj = r.Object,
                                  !.required = "no", !.resp = AllowedWith(<<>>)])
           ELSE IF r.Object.AnnotationsNil
           THEN Put(w, [me EXCEPT !.pc = "panic", !.obj = r.Object, !.required = "yes"])
           ELSE Put(w, [me EXCEPT !.pc = IF cfg.CreateRoutes THEN "routes" ELSE "tls",
                                  !.obj = MarkInjected(r.Object), !.required = "yes"])
    /\ UNCHANGED <<cfg, tpl, gw, castore, active, ncalls, fn>>

----------------------------------------------------------------------------
(* createServiceRoutes.  me.routes is the record of its calls in this      *)
(* admission call: for each, the map it was given and what it returned.    *)

sName(obj) == obj.Labels["app"]
slugInbound(obj) == <<sName(obj), "-inbound">>
slugMesh(obj) == <<sName(obj), "-mesh">>
hName(obj) == <<sName(obj), ".", IF obj.Namespace = "" THEN "default" ELSE obj.Namespace>>

inboundOpts(obj) ==
    [Slug |-> slugInbound(obj), Hostname |-> hName(obj),
     AnnotationsNil |-> FALSE, Annotations |-> obj.Annotations]
meshOpts(obj) ==
    [Slug |-> slugMesh(obj), Hostname |-> <<"mesh">>,
     AnnotationsNil |-> TRUE, Annotations |-> EmptyMap]

\* the call createServiceRoutes(&pod, annotations, ...): annotations is the
\* pod's own map
RoutesEnter(me) == [me EXCEPT !.routes = [NoRoutes EXCEPT !.st = "entered",
                                                          !.given = me.obj.Annotations]]

\* the return of createServiceRoutes: (annotations, err)
RoutesReturn(me, err) ==
    [me EXCEPT !.routes = [@ EXCEPT !.st = "returned", !.returned = me.obj.Annotations,
                                    !.err = err]]

\* an outbound call of the admission call, with its argument and whether it
\* succeeded
Call(me, op, arg, ok) == [me EXCEPT !.calls = Append(@, [op |-> op, arg |-> arg, ok |-> ok])]

createServiceRoutesNoGuard(w) ==
    /\ wk[w].pc = "routes"
    /\ LET me == RoutesEnter(wk[w])
       IN  IF "app" \notin DOMAIN me.obj.Labels
           THEN Put(w, ErrorReturn(RoutesReturn(me, <<"app label is required">>),
                                   <<"app label is required">>))
           ELSE Put(w, [me EXCEPT !.pc = "getInbound"])
    /\ UNCHANGED <<cfg, tpl, gw, castore, active, ncalls, fn>>

\* lines 346-374: the idempotence guard and the app label
createServiceRoutes(w) ==
    /\ wk[w].pc = "routes"
    /\ LET me == RoutesEnter(wk[w])
       IN  IF AdmissionWebhookAnnotationInboundServiceIDKey \in DOMAIN me.obj.Annotations
           THEN Put(w, [RoutesReturn(me, <<>>) EXCEPT !.pc = "tls"])
           ELSE IF "app" \notin DOMAIN me.obj.Labels
           THEN Put(w, ErrorReturn(RoutesReturn(me, <<"app label is required">>),
                                   <<"app label is required">>))
           ELSE Put(w, [me EXCEPT !.pc = "getInbound"])
    /\ UNCHANGED <<cfg, tpl, gw, castore, active, ncalls, fn>>

Min(S) == CHOOSE x \in S : \A y \in S : x <= y

\* {slug} when the gateway holds no definition under the slug: the lookup that
\* fails then is a miss, not a transient error (kept in me.routes.missed)
NotHeld(g, slug) == IF BySlug(g, slug) = {} THEN {slug} ELSE {}

\* obj with annotations[key] = id
WithID(obj, key, id) == [obj EXCEPT !.Annotations = MapSet(@, key, id)]

\* lines 376-388, the lookup: tyk.GetBySlug(opts.Slug) gives a definition the
\* gateway holds under the slug, or an error (none held, or the call failed)
GetBySlugInbound(w) ==
    /\ wk[w].pc = "getInbound"
    /\ LET me == wk[w]
           slug == slugInbound(me.obj)
       IN  \/ \E i \in BySlug(gw, slug) :
                Put(w, [Call(me, "GetBySlug", slug, TRUE) EXCEPT
                    !.pc = "getMesh",
                    !.obj = WithID(me.obj, AdmissionWebhookAnnotationInboundServiceIDKey,
                                   gw.apis[i].Id)])
           \/ Put(w, [Call(me, "GetBySlug", slug, FALSE) EXCEPT
                    !.pc = "createInbound",
                    !.routes.missed = @ \cup NotHeld(gw, slug)])
    /\ UNCHANGED <<cfg, tpl, gw, castore, active, ncalls, fn>>

\* CreateService for the inbound slug made a no-op when the gateway already
\* holds a definition under the slug (a create that looks again first)
CreateServiceInboundOnce(w) ==
    /\ wk[w].pc = "createInbound"
    /\ LET me == wk[w]
           opts == inboundOpts(me.obj)
           held == BySlug(gw, opts.Slug)
           id == IF held = {} THEN ApiId(Len(gw.apis) + 1) ELSE gw.apis[Min(held)].Id
       IN  /\ gw' = IF held = {} THEN AddService(gw, opts) ELSE gw
           /\ Put(w, [Call(me, "CreateService", opts.Slug, TRUE) EXCEPT
                    !.pc = "getMesh",
                    !.obj = WithID(me.obj, AdmissionWebhookAnnotationInboundServiceIDKey, id)])
    /\ UNCHANGED <<cfg, tpl, castore, active, ncalls, fn>>

\* lines 380-390: tyk.CreateService(opts) fails on an error of Process over
\* opts.Annotations or on an error of its own ("gateway error": rendering the
\* template, the call to the gateway), or adds the definition and gives its ID
CreateServiceInbound(w) ==
    /\ wk[w].pc = "createInbound"
    /\ LET me == wk[w]
           opts == inboundOpts(me.obj)
           failed(e) ==
               LET msg == <<"failed to create inbound service ">> \o opts.Slug \o <<": ", e>>
               IN  ErrorReturn(RoutesReturn(Call(me, "CreateService", opts.Slug, FALSE), msg),
                               msg)
       IN  \/ /\ \E e \in CreateServiceProcessErrors(opts) \cup {"gateway error"} :
                    Put(w, failed(e))
              /\ gw' = gw
           \/ /\ CreateServiceProcessCanPass(opts)
              /\ gw' = AddService(gw, opts)
              /\ Put(w, [Call(me, "CreateService", opts.Slug, TRUE) EXCEPT
                    !.pc = "getMesh",
                    !.obj = WithID(me.obj, AdmissionWebhookAnnotationInboundServiceIDKey,
                                   ApiId(Len(gw.apis) + 1))])
    /\ UNCHANGED <<cfg, tpl, castore, active, ncalls, fn>>

\* the lookup of the mesh route followed by CreateService whatever it gave
GetBySlugMeshAlwaysCreates(w) ==
    /\ wk[w].pc = "getMesh"
    /\ LET me == wk[w]
           slug == slugMesh(me.obj)
       IN  \E ok \in {b \in BOOLEAN : b => BySlug(gw, slug) # {}} :
                Put(w, [Call(me, "GetBySlug", slug, ok) EXCEPT !.pc = "createMesh"])
    /\ UNCHANGED <<cfg, tpl, gw, castore, active, ncalls, fn>>

\* lines 408-431, the lookup of the mesh route
GetBySlugMesh(w) ==
    /\ wk[w].pc = "getMesh"
    /\ LET me == wk[w]
           slug == slugMesh(me.obj)
       IN  \/ \E i \in BySlug(gw, slug) :
                Put(w, [RoutesReturn(
                            [Call(me, "GetBySlug", slug, TRUE) EXCEPT
                                !.obj = WithID(me.obj, AdmissionWebhookAnnotationMeshServiceIDKey,
                                               gw.apis[i].Id)], <<>>)
                        EXCEPT !.pc = "tls"])
           \/ Put(w, [Call(me, "GetBySlug", slug, FALSE) EXCEPT
                    !.pc = "createMesh",
                    !.routes.missed = @ \cup NotHeld(gw, slug)])
    /\ UNCHANGED <<cfg, tpl, gw, castore, active, ncalls, fn>>

\* lines 424-435: the mesh route is created and the map returned
CreateServiceMesh(w) ==
    /\ wk[w].pc = "createMesh"
    /\ LET me == wk[w]
           opts == meshOpts(me.obj)
           failed(e) ==
               LET msg == <<"failed to create mesh service ">> \o opts.Slug \o <<": ", e>>
               IN  ErrorReturn(RoutesReturn(Call(me, "CreateService", opts.Slug, FALSE), msg),
                               msg)
       IN  \/ /\ \E e \in CreateServiceProcessErrors(opts) \cup {"gateway error"} :
                    Put(w, failed(e))
              /\ gw' = gw
           \/ /\ CreateServiceProcessCanPass(opts)
              /\ gw' = AddService(gw, opts)
              /\ Put(w, [RoutesReturn(
                            [Call(me, "CreateService", opts.Slug, TRUE) EXCEPT
                                !.obj = WithID(me.obj, AdmissionWebhookAnnotationMeshServiceIDKey,
                                               ApiId(Len(gw.apis) + 1))], <<>>)
                         EXCEPT !.pc = "tls"])
    /\ UNCHANGED <<cfg, tpl, castore, active, ncalls, fn>>

----------------------------------------------------------------------------
(* handleMeshTLS and generateStoreAndRegisterCertForAPIDef *)

\* the call generateStoreAndRegisterCertForAPIDef(sid, byoCert): certID starts
\* as byoCert, and a certificate is generated only when that is empty
SagaEnter(me, phase, sid, byo) ==
    [me EXCEPT !.saga = [NoSaga EXCEPT !.phase = phase, !.sid = sid, !.byo = byo,
                                       !.certID = byo],
               !.pc = IF byo = Empty THEN "genGet" ELSE "getDef"]

\* an error return of handleMeshTLS
TLSFailed(me, msg) == ErrorReturn(me, msg)

\* handleMeshTLS without its test of EnableMeshTLS
handleMeshTLSIgnoresFlag(w) ==
    /\ wk[w].pc = "tls"
    /\ LET me == wk[w]
           ann == me.obj.Annotations
       IN  IF AdmissionWebhookAnnotationInboundServiceIDKey \notin DOMAIN ann
           THEN Put(w, TLSFailed(me, <<"can't generate server cert without an inbound API ID">>))
           ELSE Put(w, SagaEnter(me, "inbound",
                                 ann[AdmissionWebhookAnnotationInboundServiceIDKey], Empty))
    /\ UNCHANGED <<cfg, tpl, gw, castore, active, ncalls, fn>>

handleMeshTLS(w) ==
    /\ wk[w].pc = "tls"
    /\ LET me == wk[w]
           ann == me.obj.Annotations
       IN  IF ~cfg.EnableMeshTLS THEN Put(w, [me EXCEPT !.pc = "patch"])
           ELSE IF AdmissionWebhookAnnotationInboundServiceIDKey \notin DOMAIN ann
           THEN Put(w, TLSFailed(me, <<"can't generate server cert without an inbound API ID">>))
           ELSE Put(w, SagaEnter(me, "inbound",
                                 ann[AdmissionWebhookAnnotationInboundServiceIDKey], Empty))
    /\ UNCHANGED <<cfg, tpl, gw, castore, active, ncalls, fn>>

\* generateServerCert, lines 524-532: the definition's domain
SagaResolveDomain(w) ==
    /\ wk[w].pc = "genGet"
    /\ LET me == wk[w]
           sid == me.saga.sid
       IN  \/ \E i \in ByObjectID(gw, sid) :
                LET done == Call(me, "GetByObjectID", sid, TRUE)
                IN  IF gw.apis[i].Domain = Empty
                    THEN Put(w, TLSFailed(done, <<"can't generate certificate: ",
                                                  "domain cannot be emtpy">>))
                    ELSE Put(w, [done EXCEPT !.pc = "genCert",
                                             !.saga.hostname = gw.apis[i].Domain])
           \/ Put(w, TLSFailed(Call(me, "GetByObjectID", sid, FALSE),
                               <<"can't generate certificate: ", "gateway error">>))
    /\ UNCHANGED <<cfg, tpl, gw, castore, active, ncalls, fn>>

\* generateServerCert, lines 534-539: CAClient.GenerateCert(hostname)
SagaGenerateCert(w) ==
    /\ wk[w].pc = "genCert"
    /\ LET me == wk[w]
       IN  \E ok \in BOOLEAN :
            LET done == Call(me, "GenerateCert", me.saga.hostname, ok)
            IN  IF ok THEN Put(w, [done EXCEPT !.pc = "upload"])
                ELSE Put(w, TLSFailed(done, <<"can't generate certificate: ", "ca error">>))
    /\ UNCHANGED <<cfg, tpl, gw, castore, active, ncalls, fn>>

\* lines 449-454: tyk.CreateCertificate puts the bundle in the gateway's store
SagaUpload(w) ==
    /\ wk[w].pc = "upload"
    /\ LET me == wk[w]
           id == CertId(Cardinality(gw.certs) + 1)
       IN  \/ /\ Put(w, [Call(me, "CreateCertificate", me.saga.hostname, TRUE) EXCEPT
                            !.pc = "store", !.saga.certID = id])
              /\ gw' = [gw EXCEPT !.certs = @ \cup {id}]
           \/ /\ Put(w, TLSFailed(Call(me, "CreateCertificate", me.saga.hostname, FALSE),
                        <<"failed to upload certificate to tyk secure store: ",
                          "gateway error">>))
              /\ gw' = gw
    /\ UNCHANGED <<cfg, tpl, castore, active, ncalls, fn>>

\* StoreCert with a compensation: when it fails the certificate just uploaded
\* is taken out of the gateway's store again
SagaStoreCertCompensates(w) ==
    /\ wk[w].pc = "store"
    /\ LET me == wk[w]
       IN  \/ /\ Put(w, [Call(me, "StoreCert", me.saga.certID, TRUE) EXCEPT !.pc = "getDef"])
              /\ castore' = castore \cup {me.saga.certID}
              /\ gw' = gw
           \/ /\ Put(w, TLSFailed(Call(me, "StoreCert", me.saga.certID, FALSE),
                        <<"failed to store certificate reference in controller store: ",
                          "ca error">>))
              /\ castore' = castore
              /\ gw' = [gw EXCEPT !.certs = @ \ {me.saga.certID}]
    /\ UNCHANGED <<cfg, tpl, active, ncalls, fn>>

\* lines 457-461: CAClient.StoreCert keeps the certificate reference
SagaStoreCert(w) ==
    /\ wk[w].pc = "store"
    /\ LET me == wk[w]
       IN  \/ /\ Put(w, [Call(me, "StoreCert", me.saga.certID, TRUE) EXCEPT !.pc = "getDef"])
              /\ castore' = castore \cup {me.saga.certID}
           \/ /\ Put(w, TLSFailed(Call(me, "StoreCert", me.saga.certID, FALSE),
                        <<"failed to store certificate reference in controller store: ",
                          "ca error">>))
              /\ castore' = castore
    /\ UNCHANGED <<cfg, tpl, gw, active, ncalls, fn>>

\* lines 464-473: the definition is read and certID appended to its list
SagaGetDef(w) ==
    /\ wk[w].pc = "getDef"
    /\ LET me == wk[w]
           sid == me.saga.sid
       IN  \/ \E i \in ByObjectID(gw, sid) :
                Put(w, [Call(me, "GetByObjectID", sid, TRUE) EXCEPT
                    !.pc = "update",
                    !.saga.aDef = [gw.apis[i] EXCEPT
                                      !.Certificates = Append(@, me.saga.certID)]])
           \/ Put(w, TLSFailed(Call(me, "GetByObjectID", sid, FALSE),
                               <<"failed to retrieve API definition: ", "gateway error">>))
    /\ UNCHANGED <<cfg, tpl, gw, castore, active, ncalls, fn>>

\* the gateway after UpdateAPI(def): the definition of that ID is replaced
UpdateAPI(g, def) ==
    [g EXCEPT !.apis = [i \in 1..Len(g.apis) |->
                            IF g.apis[i].Id = def.Id THEN def ELSE g.apis[i]]]

\* the rest of handleMeshTLS handing no preset certificate ID to the mesh saga
SagaUpdateAPIIgnoresPreset(w) ==
    /\ wk[w].pc = "update"
    /\ LET me == wk[w]
           ann == me.obj.Annotations
           aDef == me.saga.aDef
       IN  \/ /\ gw' = UpdateAPI(gw, aDef)
              /\ LET done == Call(me, "UpdateAPI", aDef.Id, TRUE)
                 IN  IF me.saga.phase = "mesh" THEN Put(w, [done EXCEPT !.pc = "patch"])
                     ELSE IF AdmissionWebhookAnnotationMeshServiceIDKey \notin DOMAIN ann
                     THEN Put(w, TLSFailed(done,
                              <<"can't generate server cert without an mesh API ID">>))
                     ELSE Put(w, SagaEnter(done, "mesh",
                                           ann[AdmissionWebhookAnnotationMeshServiceIDKey],
                                           Empty))
           \/ /\ gw' = gw
              /\ Put(w, TLSFailed(Call(me, "UpdateAPI", aDef.Id, FALSE),
                        <<"failed to store updated API Definition (">> \o aDef.Id
                            \o <<"): ", "gateway error">>))
    /\ UNCHANGED <<cfg, tpl, castore, active, ncalls, fn>>

\* lines 468-477 and the return into handleMeshTLS, without the test of the
\* mesh-service-id at lines 511-513
SagaUpdateAPINoMeshTest(w) ==
    /\ wk[w].pc = "update"
    /\ LET me == wk[w]
           ann == me.obj.Annotations
           aDef == me.saga.aDef
       IN  \/ /\ gw' = UpdateAPI(gw, aDef)
              /\ LET done == Call(me, "UpdateAPI", aDef.Id, TRUE)
                 IN  IF me.saga.phase = "mesh" THEN Put(w, [done EXCEPT !.pc = "patch"])
                     ELSE IF AdmissionWebhookAnnotationMeshServiceIDKey \notin DOMAIN ann
                     THEN Put(w, [done EXCEPT !.pc = "patch"])
                     ELSE Put(w, SagaEnter(done, "mesh",
                                           ann[AdmissionWebhookAnnotationMeshServiceIDKey],
                                           cfg.MeshCertificateID))
           \/ /\ gw' = gw
              /\ Put(w, TLSFailed(Call(me, "UpdateAPI", aDef.Id, FALSE),
                        <<"failed to store updated API Definition (">> \o aDef.Id
                            \o <<"): ", "gateway error">>))
    /\ UNCHANGED <<cfg, tpl, castore, active, ncalls, fn>>

\* lines 474-479 and the rest of handleMeshTLS: after the inbound definition
\* comes the mesh definition, with the template's certificate ID if it has one
SagaUpdateAPI(w) ==
    /\ wk[w].pc = "update"
    /\ LET me == wk[w]
           ann == me.obj.Annotations
           aDef == me.saga.aDef
       IN  \/ /\ gw' = UpdateAPI(gw, aDef)
              /\ LET done == Call(me, "UpdateAPI", aDef.Id, TRUE)
                 IN  IF me.saga.phase = "mesh" THEN Put(w, [done EXCEPT !.pc = "patch"])
                     ELSE IF AdmissionWebhookAnnotationMeshServiceIDKey \notin DOMAIN ann
                     THEN Put(w, TLSFailed(done,
                              <<"can't generate server cert without an mesh API ID">>))
                     ELSE Put(w, SagaEnter(done, "mesh",
                                           ann[AdmissionWebhookAnnotationMeshServiceIDKey],
                                           cfg.MeshCertificateID))
           \/ /\ gw' = gw
              /\ Put(w, TLSFailed(Call(me, "UpdateAPI", aDef.Id, FALSE),
                        <<"failed to store updated API Definition (">> \o aDef.Id
                            \o <<"): ", "gateway error">>))
    /\ UNCHANGED <<cfg, tpl, castore, active, ncalls, fn>>

----------------------------------------------------------------------------
(* createPatch for a Pod *)


\* sName of preProcessContainerTpl: the app label, or a placeholder
serviceNameOf(pod) ==
    IF "app" \in DOMAIN pod.Labels THEN <<pod.Labels["app"]>>
    ELSE <<pod.GenerateName, "please-set-app-label">>

\* fmt.Sprintf("mesh,%s", sName)
tagsOf(pod) == <<"mesh,">> \o serviceNameOf(pod)

\* preProcessContainerTpl writes into the containers it is given, which are
\* the template's: the result is the template's new content
preProcessContainerTpl(pod, containers) ==
    LET mesh == {i \in 1..Len(containers) : ToLower(containers[i].Name) = sTykMesh}
        tagEnv == [Name |-> tagVarName, Value |-> tagsOf(pod)]
    IN  IF mesh = {} THEN containers
        ELSE LET i == Min(mesh)
                 at == {ei \in 1..Len(containers[i].Env) :
                            containers[i].Env[ei].Name = tagVarName}
             IN  IF at # {}
                 THEN [containers EXCEPT ![i].Env[Min(at)] = tagEnv]
                 ELSE [containers EXCEPT ![i].Env = Append(@, tagEnv)]

meshHostAlias == [IP |-> "127.0.0.1", Hostnames |-> <<"mesh", "mesh.local">>]

addContainerNoAlias(spec, added) ==
    [spec EXCEPT !.Containers = @ \o [i \in 1..Len(added) |-> [added[i] EXCEPT !.EnvOf = i]]]

\* addContainer: the host alias, and a copy of each template container, whose
\* Env is the template container's slice (EnvOf says which)
addContainer(spec, added) ==
    [spec EXCEPT !.HostAliases = Append(@, meshHostAlias),
                 !.Containers = @ \o [i \in 1..Len(added) |-> [added[i] EXCEPT !.EnvOf = i]]]

addInitContainer(spec, added) == [spec EXCEPT !.InitContainers = @ \o added]

volName == "ca-pem"
certVolumenName == "ssl-certs"

addVolume(spec, sidecarConfig) ==
    IF ~sidecarConfig.EnableMeshTLS THEN spec
    ELSE [spec EXCEPT !.Volumes = @ \o <<[Name |-> volName, Source |-> "ConfigMap"],
                                         [Name |-> certVolumenName, Source |-> "EmptyDir"]>>]

injectCAVolume(spec, sidecarConfig) ==
    LET cs == spec.Containers
        volumeMount == [Name |-> certVolumenName, MountPath |-> "/etc/ssl/certs"]
    IN  IF ~sidecarConfig.EnableMeshTLS THEN spec
        ELSE [spec EXCEPT !.Containers =
                [i \in 1..Len(cs) |->
                    [cs[i] EXCEPT !.VolumeMounts = Append(cs[i].VolumeMounts, volumeMount)]]]

\* createPatch, lines 315-318: the template is rewritten and the spec built
createPatch(w) ==
    /\ wk[w].pc = "patch"
    /\ LET me == wk[w]
           containers == preProcessContainerTpl(me.obj, tpl.Containers)
           spec == injectCAVolume(
                       addVolume(
                           addInitContainer(addContainer(me.obj.Spec, containers),
                                            tpl.InitContainers),
                           cfg),
                       cfg)
       IN  /\ tpl' = [tpl EXCEPT !.Containers = containers]
           /\ Put(w, [me EXCEPT !.pc = "marshal", !.obj.Spec = spec])
    /\ UNCHANGED <<cfg, gw, castore, active, ncalls, fn>>

\* the spec as json.Marshal reads it: an injected container's Env is what the
\* template's slice holds now
Marshalled(spec, template) ==
    LET cs == spec.Containers
    IN  [spec EXCEPT !.Containers =
            [i \in 1..Len(cs) |->
                IF cs[i].EnvOf = 0 THEN cs[i]
                ELSE [cs[i] EXCEPT !.Env = template.Containers[cs[i].EnvOf].Env]]]

\* updateAnnotation: one add of the whole map
updateAnnotation(target, added) ==
    <<[op |-> "add", path |-> "/metadata/annotations", value |-> added]>>

\* createPatch, lines 320-328, and the return of processPodMutations
marshalPatch(w) ==
    /\ wk[w].pc = "marshal"
    /\ LET me == wk[w]
           patch == <<[op |-> "replace", path |-> "/spec",
                       value |-> Marshalled(me.obj.Spec, tpl)]>>
                    \o updateAnnotation(me.req.Object.Annotations, me.obj.Annotations)
       IN  Put(w, [me EXCEPT !.pc = "respond", !.resp = AllowedWith(patch)])
    /\ UNCHANGED <<cfg, tpl, gw, castore, active, ncalls, fn>>

----------------------------------------------------------------------------
(* The admission controller *)

Next ==
    \E w \in Workers :
        \/ Receive(w)
        \/ Serve(w)
        \/ processServiceMutations(w)
        \/ processPodMutations(w)
        \/ createServiceRoutes(w)
        \/ GetBySlugInbound(w)
        \/ CreateServiceInbound(w)
        \/ GetBySlugMesh(w)
        \/ CreateServiceMesh(w)
        \/ handleMeshTLS(w)
        \/ SagaResolveDomain(w)
        \/ SagaGenerateCert(w)
        \/ SagaUpload(w)
        \/ SagaStoreCert(w)
        \/ SagaGetDef(w)
        \/ SagaUpdateAPI(w)
        \/ createPatch(w)
        \/ marshalPatch(w)
        \/ Respond(w)
        \/ Finish(w)
        \/ Resubmit(w)

Spec == Init /\ [][Next]_vars

\* the same controller with the transport dispatching calls on two workers at
\* once (net/http runs each request's Serve on a goroutine of its own),
\* configured with mesh-TLS disabled and serving Pod requests: the steps of a
\* call are then those up to the routes and the patch
InitConcurrent ==
    /\ cfg \in {c \in Configs : ~c.EnableMeshTLS /\ c.MeshCertificateID = Empty}
    /\ tpl \in Templates
    /\ gw = [apis |-> <<>>, certs |-> {}]
    /\ castore = {}
    /\ wk = [w \in Workers |-> Idle]
    /\ active = Workers
    /\ ncalls = 0
    /\ fn = NoFn

NextConcurrent ==
    \E w \in Workers :
        \/ Receive(w)
        \/ Serve(w)
        \/ processPodMutations(w)
        \/ createServiceRoutes(w)
        \/ GetBySlugInbound(w)
        \/ CreateServiceInbound(w)
        \/ GetBySlugMesh(w)
        \/ CreateServiceMesh(w)
        \/ handleMeshTLS(w)
        \/ createPatch(w)
        \/ marshalPatch(w)
        \/ Respond(w)
        \/ Finish(w)

SpecConcurrent == InitConcurrent /\ [][NextConcurrent]_vars

----------------------------------------------------------------------------
(* The mutation policy on its own: mutationRequired applied to the         *)
(* metadata of an object.                                                  *)

\* the injector with no call under way and none to come
Quiet ==
    /\ cfg = [CreateRoutes |-> FALSE, EnableMeshTLS |-> FALSE, MeshCertificateID |-> Empty]
    /\ tpl = TemplateOf(<<>>)
    /\ gw = [apis |-> <<>>, certs |-> {}]
    /\ castore = {}
    /\ wk = [w \in Workers |-> Idle]
    /\ active = {}
    /\ ncalls = 0

InjectedSpellings ==
    {sInjected, sInjectedMixed, <<"I","N","J","E","C","T","E","D">>,
     <<"i","n","j","e","c","t","e","D">>}
OtherStatuses == {Empty, <<"i","n","j","e","c","t">>, <<"d","o","n","e">>}

TruthySpellings ==
    {sY, <<"Y">>, sYes, <<"Y","e","s">>, <<"Y","E","S">>, sTrue, <<"T","r","u","e">>,
     <<"T","R","U","E">>, sOn, <<"O","N">>, <<"o","N">>}
OtherInjectValues ==
    {Empty, sNo, sFalse, <<"1">>, <<"t">>, <<"y","e","s","s">>, <<"o","f","f">>,
     <<"t","r","u","e"," ">>}

PolicyNamespaces == {"kube-system", "kube-public", "default", "", "Kube-System", "prod"}

PolicyAnnotations ==
    {MapOf(i \cup s) :
        i \in {{}} \cup {{<<AdmissionWebhookAnnotationInjectKey, v>>} :
                            v \in TruthySpellings \cup OtherInjectValues},
        s \in {{}} \cup {{<<AdmissionWebhookAnnotationStatusKey, v>>} :
                            v \in InjectedSpellings \cup OtherStatuses}}

PolicyInputs ==
    {[Namespace |-> ns, AnnotationsNil |-> FALSE, Annotations |-> a] :
        ns \in PolicyNamespaces, a \in PolicyAnnotations}
    \cup {NilMeta(ns) : ns \in PolicyNamespaces}

InitPolicy ==
    /\ Quiet
    /\ \E m \in PolicyInputs : fn = [op |-> "mutationRequired", stage |-> "in",
                                     meta |-> m, out |-> FALSE]

PolicyApply ==
    /\ fn.op = "mutationRequired"
    /\ fn.stage = "in"
    /\ fn' = [fn EXCEPT !.stage = "out",
                        !.out = mutationRequired(ignoredNamespaces, fn.meta)]
    /\ UNCHANGED <<cfg, tpl, gw, castore, wk, active, ncalls>>

NextPolicy == PolicyApply

SpecPolicy == InitPolicy /\ [][NextPolicy]_vars

----------------------------------------------------------------------------
(* The annotation processor on its own: Process(ann, def), one entry of    *)
(* the map per step, in whatever order `range ann` takes them.             *)

Chars_foo_dash_bar == <<"f","o","o","-","b","a","r">>
Chars_foo_us_bar == <<"f","o","o","_","b","a","r">>
Chars_bar == <<"b","a","r">>
Chars_baz == <<"b","a","z">>
Chars_arr == <<"a","r","r">>

KeyStringFooBar == <<ValueSetStringKey>> \o Chars_foo_dash_bar
KeyStringFooDotBar == <<ValueSetStringKey>> \o Chars_foo \o <<".">> \o Chars_bar
KeyStringNoPath == <<ValueSetStringKey>>
KeyStringArrX == <<ValueSetStringKey>> \o Chars_arr \o <<".", "x">>
KeyObjectFoo == <<ObjectSetKey>> \o Chars_foo
KeyArrayArr == <<ArraySetKey>> \o Chars_arr

ProcEntries ==
    {<<KeyStringFooBar, Chars_baz>>,
     <<KeyStringFooDotBar, <<"x">>>>,
     <<KeyStringNoPath, <<"v">>>>,
     <<KeyStringArrX, <<"v">>>>,
     <<KeyEnabled, sMaybe>>,
     <<KeyEnabled, <<"T","R","U","E">>>>,
     <<KeyEnabled, sFalse>>,
     <<KeyNumFoo, <<"2","0">>>>,
     <<KeyNumFoo, <<"-","7">>>>,
     <<KeyNumFoo, <<"2","x">>>>,
     <<KeyObjectFoo, <<"{","\"","a","\"",":","1","}">>>>,
     <<KeyObjectFoo, <<"{","\"","a","\"">>>>,
     <<KeyArrayArr, <<"[","1",",","\"","b","\"","]">>>>,
     <<KeyArrayArr, <<"{","}">>>>,
     <<AdmissionWebhookAnnotationInjectKey, sTrue>>}

ProcMaps ==
    {MapOf(es) : es \in {x \in SUBSET ProcEntries :
                            /\ Cardinality(x) <= MaxEntries
                            /\ \A e1, e2 \in x : e1[1] = e2[1] => e1 = e2}}

ProcDocs == {EmptyDoc, JObj(MapOf({<<Chars_foo, JStr(<<"o","l","d">>)>>}))}

InitProc ==
    /\ Quiet
    /\ \E a \in ProcMaps, d \in ProcDocs :
        fn = [op |-> "Process", stage |-> "loop", ann |-> a, def0 |-> d,
              todo |-> DOMAIN a, applied |-> <<>>, def |-> d, err |-> ""]

\* one turn of the loop of Process, lines 80-115
ProcessStep ==
    /\ fn.op = "Process"
    /\ fn.stage = "loop"
    /\ \E k \in fn.todo :
        LET r == ProcessEntry(k, fn.ann[k], fn.def)
        IN  fn' = [fn EXCEPT !.def = r.def, !.err = r.err,
                             !.todo = @ \ {k},
                             !.applied = IF r.err = "" THEN Append(@, k) ELSE @,
                             !.stage = IF r.err = "" THEN "loop" ELSE "done"]
    /\ UNCHANGED <<cfg, tpl, gw, castore, wk, active, ncalls>>

\* the loop is over: return def, nil
ProcessReturn ==
    /\ fn.op = "Process"
    /\ fn.stage = "loop"
    /\ fn.todo = {}
    /\ fn' = [fn EXCEPT !.stage = "done"]
    /\ UNCHANGED <<cfg, tpl, gw, castore, wk, active, ncalls>>

NextProc == ProcessStep \/ ProcessReturn

SpecProc == InitProc /\ [][NextProc]_vars

----------------------------------------------------------------------------
(* Properties of the mutation policy, under SpecPolicy *)

PolicyDone == fn.op = "mutationRequired" /\ fn.stage = "out"
PolicyHas(key) == ~fn.meta.AnnotationsNil /\ key \in DOMAIN fn.meta.Annotations
PolicyIgnoredNamespace == fn.meta.Namespace \in {"kube-system", "kube-public"}
PolicyInjectedMarker ==
    /\ PolicyHas(AdmissionWebhookAnnotationStatusKey)
    /\ fn.meta.Annotations[AdmissionWebhookAnnotationStatusKey] \in InjectedSpellings
PolicyTruthyInject ==
    /\ PolicyHas(AdmissionWebhookAnnotationInjectKey)
    /\ fn.meta.Annotations[AdmissionWebhookAnnotationInjectKey] \in TruthySpellings

\* C2: for an object whose namespace is kube-system or kube-public,
\* mutationRequired returns false whatever its annotations are.
C2_IgnoredNamespaceNotRequired ==
    (PolicyDone /\ PolicyIgnoredNamespace) => fn.out = FALSE

\* an object in kube-public with inject: "true" and no status has been judged
C2_Witness ==
    /\ PolicyDone
    /\ fn.meta.Namespace = "kube-public"
    /\ PolicyHas(AdmissionWebhookAnnotationInjectKey)
    /\ fn.meta.Annotations[AdmissionWebhookAnnotationInjectKey] = sTrue
    /\ ~PolicyHas(AdmissionWebhookAnnotationStatusKey)
    /\ fn.out = FALSE

\* C3: when the status annotation spells "injected" in any letter case,
\* mutationRequired returns false, also with a truthy inject annotation.
C3_InjectedNotRequired ==
    (PolicyDone /\ PolicyInjectedMarker) => fn.out = FALSE

\* an object outside the ignored namespaces with status "Injected" and a
\* truthy inject annotation has been judged
C3_Witness ==
    /\ PolicyDone
    /\ ~PolicyIgnoredNamespace
    /\ PolicyHas(AdmissionWebhookAnnotationStatusKey)
    /\ fn.meta.Annotations[AdmissionWebhookAnnotationStatusKey] = sInjectedMixed
    /\ PolicyTruthyInject
    /\ fn.out = FALSE

\* C4: outside the ignored namespaces and without the injected marker,
\* mutationRequired returns true exactly when the inject annotation is there
\* with one of y, yes, true, on in some letter case; a nil map, no such
\* annotation or another value give false.
C4_RequiredIffTruthyInject ==
    (PolicyDone /\ ~PolicyIgnoredNamespace /\ ~PolicyInjectedMarker)
        => (fn.out <=> PolicyTruthyInject)

\* an object in "default" with inject: "YES" and another status than
\* injected has been judged to need mutation
C4_Witness ==
    /\ PolicyDone
    /\ fn.meta.Namespace = "default"
    /\ PolicyHas(AdmissionWebhookAnnotationInjectKey)
    /\ fn.meta.Annotations[AdmissionWebhookAnnotationInjectKey] = <<"Y","E","S">>
    /\ PolicyHas(AdmissionWebhookAnnotationStatusKey)
    /\ ~PolicyInjectedMarker
    /\ fn.out = TRUE

----------------------------------------------------------------------------
(* Properties of the processor, under SpecProc *)

ProcDone == fn.op = "Process" /\ fn.stage = "done"
C9Input ==
    /\ fn.ann = MapOf({<<KeyStringFooBar, Chars_baz>>})
    /\ fn.def0 = EmptyDoc

\* C9 as stated: Process of string.service.tyk.io/foo-bar: baz on {} gives a
\* document in which foo.bar is "baz".
C9_FooDotBarIsBaz ==
    (ProcDone /\ C9Input) => GetAt(fn.def, <<Chars_foo, Chars_bar>>) = JStr(Chars_baz)

\* C9 as the code has it: Process of string.service.tyk.io/foo-bar: baz on {}
\* returns no error and the document {"foo_bar":"baz"}: the one key foo_bar
\* at the top, and nothing under foo.
C9_FooUnderscoreBarIsBaz ==
    (ProcDone /\ C9Input)
        => /\ fn.err = ""
           /\ fn.def = JObj(MapOf({<<Chars_foo_us_bar, JStr(Chars_baz)>>}))
           /\ GetAt(fn.def, <<Chars_foo>>) = JAbsent

\* Process has returned for that input, with foo_bar written
C9_Witness ==
    /\ ProcDone
    /\ C9Input
    /\ fn.applied = <<KeyStringFooBar>>
    /\ GetAt(fn.def, <<Chars_foo_us_bar>>) = JStr(Chars_baz)

\* the document after the entries ks have been applied to def in that order
RECURSIVE Accumulated(_, _, _)
Accumulated(ann, ks, def) ==
    IF ks = <<>> THEN def
    ELSE Accumulated(ann, Tail(ks), ProcessEntry(Head(ks), ann[Head(ks)], def).def)

\* Process has stopped on an entry that failed
ProcFailed == ProcDone /\ fn.err # ""

\* the failure came from the document writer (sjson.Set), not from set's own
\* reading of the value
WriterRejected ==
    fn.err \in {"path cannot be empty", "cannot set array element for non-numeric key"}

\* C11: when Process fails on an entry it returns, with the error, the
\* document as accumulated from the entries applied before the failing one,
\* whatever the cause of the failure.
C11_FailureReturnsAccumulated ==
    ProcFailed => fn.def = Accumulated(fn.ann, fn.applied, fn.def0)

\* Process has applied an entry and then failed on a path the document writer
\* rejects: what it returns is the empty text, not the document accumulated
C11_Witness ==
    /\ ProcFailed
    /\ WriterRejected
    /\ Len(fn.applied) >= 1
    /\ Accumulated(fn.ann, fn.applied, fn.def0) # fn.def0
    /\ fn.def = NoText

----------------------------------------------------------------------------
(* Properties of the admission controller, under Spec *)

IsPodKind(me) == ToLower(me.req.Kind) = sPodLower
IsServiceKind(me) == ToLower(me.req.Kind) = sServiceLower

\* the review with the response of this call has been written
Answered(me) == me.pc = "done" /\ me.out.kind = "review"

\* an outbound call of this call that changes or issues something failed
\* (a failed GetBySlug is the signal to create, not a failure)
SomeCallFailed(me) ==
    \E i \in 1..Len(me.calls) : me.calls[i].op # "GetBySlug" /\ ~me.calls[i].ok

\* some step of handling the request failed
Failure(me) ==
    \/ ~me.req.decodes
    \/ ~(IsPodKind(me) \/ IsServiceKind(me))
    \/ ~me.req.objectDecodes
    \/ SomeCallFailed(me)
    \/ me.errs # <<>>

\* C1: a failure while handling an admission request gives a response with
\* allowed=false, a message and no patch; an allowed response means that
\* nothing failed.
C1_FailureIsDenied ==
    \A w \in Workers :
        Answered(wk[w]) =>
            /\ Failure(wk[w]) => /\ ~wk[w].out.Allowed
                                 /\ wk[w].out.Message # <<>>
                                 /\ wk[w].out.Patch = <<>>
            /\ wk[w].out.Allowed => (wk[w].errs = <<>> /\ ~SomeCallFailed(wk[w]))

\* a Pod call whose UpdateAPI failed in the certificate saga has been answered
C1_Witness ==
    \E w \in Workers :
        /\ Answered(wk[w])
        /\ \E i \in 1..Len(wk[w].calls) :
                wk[w].calls[i].op = "UpdateAPI" /\ ~wk[w].calls[i].ok
        /\ ~wk[w].out.Allowed

\* C5: when the policy check says no mutation is required the call is
\* answered allowed=true with no patch and no message, it has made no
\* gateway call and no CA call, and the gateway and the CA store are as
\* they were when the call came in.
C5_SkippedTouchesNothing ==
    \A w \in Workers :
        wk[w].required = "no" =>
            /\ wk[w].pc \in {"respond", "done"}
            /\ wk[w].resp = AllowedWith(<<>>)
            /\ wk[w].calls = <<>>
            /\ gw = wk[w].gw0
            /\ castore = wk[w].ca0
            /\ wk[w].pc = "done" =>
                    /\ wk[w].out.kind = "review"
                    /\ wk[w].out.Allowed
                    /\ wk[w].out.Patch = <<>>

\* a Pod that does not ask for injection has been answered while the
\* gateway holds routes of an earlier call
C5_Witness ==
    \E w \in Workers :
        /\ wk[w].pc = "done"
        /\ wk[w].required = "no"
        /\ IsPodKind(wk[w])
        /\ gw.apis # <<>>
        /\ wk[w].out.Allowed

RouteCalls(me) ==
    {i \in 1..Len(me.calls) : me.calls[i].op \in {"GetBySlug", "CreateService"}}

\* C6: createServiceRoutes given a map that holds the inbound-service-id key
\* returns that map, key for key, and no error, and calls neither GetBySlug
\* nor CreateService; and every map it returns without an error holds that
\* key, so that a second call with the returned map is such a call.
C6_RoutesIdempotent ==
    \A w \in Workers :
        wk[w].routes.st = "returned" =>
            /\ AdmissionWebhookAnnotationInboundServiceIDKey \in DOMAIN wk[w].routes.given
                => /\ wk[w].routes.returned = wk[w].routes.given
                   /\ wk[w].routes.err = <<>>
                   /\ RouteCalls(wk[w]) = {}
            /\ wk[w].routes.err = <<>>
                => AdmissionWebhookAnnotationInboundServiceIDKey
                       \in DOMAIN wk[w].routes.returned

\* createServiceRoutes has returned for a Pod that came with the key
C6_Witness ==
    \E w \in Workers :
        /\ wk[w].routes.st = "returned"
        /\ AdmissionWebhookAnnotationInboundServiceIDKey \in DOMAIN wk[w].routes.given
        /\ wk[w].routes.given[AdmissionWebhookAnnotationInboundServiceIDKey] = PresetInboundID
        /\ wk[w].pc = "tls"

\* an opted-in Pod with an app label has been answered, route creation on,
\* mesh TLS off, no gateway call failed
C7Case(me) ==
    /\ Answered(me)
    /\ IsPodKind(me)
    /\ me.required = "yes"
    /\ "app" \in DOMAIN me.obj.Labels
    /\ cfg.CreateRoutes
    /\ ~cfg.EnableMeshTLS
    /\ ~SomeCallFailed(me)

\* the response C7 describes
C7Response(me) ==
    /\ me.out.Allowed
    /\ Len(me.out.Patch) = 2
    /\ LET first == me.out.Patch[1]
           second == me.out.Patch[2]
           names == {first.value.Containers[j].Name : j \in 1..Len(first.value.Containers)}
       IN  /\ first.op = "replace"
           /\ first.path = "/spec"
           /\ \A i \in 1..Len(tpl.Containers) : tpl.Containers[i].Name \in names
           /\ \E j \in 1..Len(first.value.HostAliases) :
                first.value.HostAliases[j] =
                    [IP |-> "127.0.0.1", Hostnames |-> <<"mesh", "mesh.local">>]
           /\ second.op = "add"
           /\ second.path = "/metadata/annotations"
           /\ AdmissionWebhookAnnotationInboundServiceIDKey \in DOMAIN second.value
           /\ AdmissionWebhookAnnotationMeshServiceIDKey \in DOMAIN second.value
           /\ \E i \in BySlug(gw, <<me.obj.Labels["app"], "-inbound">>) :
                second.value[AdmissionWebhookAnnotationInboundServiceIDKey] = gw.apis[i].Id
           /\ \E i \in BySlug(gw, <<me.obj.Labels["app"], "-mesh">>) :
                second.value[AdmissionWebhookAnnotationMeshServiceIDKey] = gw.apis[i].Id
           /\ AdmissionWebhookAnnotationStatusKey \in DOMAIN second.value
           /\ second.value[AdmissionWebhookAnnotationStatusKey] = sInjected
           /\ AdmissionWebhookAnnotationInjectKey \notin DOMAIN second.value

\* C7 as stated: every such Pod gets the patch with the template's
\* containers, the host alias, both service IDs, status injected and no
\* inject key.
C7_OptedInPodPatched ==
    \A w \in Workers : C7Case(wk[w]) => C7Response(wk[w])

\* C7 for the Pods it holds for: those that arrive without an
\* inbound-service-id annotation.
C7_OptedInPodWithoutIDPatched ==
    \A w \in Workers :
        (/\ C7Case(wk[w])
         /\ AdmissionWebhookAnnotationInboundServiceIDKey
                \notin DOMAIN wk[w].req.Object.Annotations)
            => C7Response(wk[w])

\* such a Pod has been answered with both routes created in this call
C7_Witness ==
    \E w \in Workers :
        /\ C7Case(wk[w])
        /\ AdmissionWebhookAnnotationInboundServiceIDKey
                \notin DOMAIN wk[w].req.Object.Annotations
        /\ \E i, j \in 1..Len(wk[w].calls) :
                /\ i < j
                /\ wk[w].calls[i].op = "CreateService" /\ wk[w].calls[i].ok
                /\ wk[w].calls[j].op = "CreateService" /\ wk[w].calls[j].ok
        /\ C7Response(wk[w])

\* C8: a Service that requires mutation gets a patch of exactly one
\* operation, with the tyk-sidecar port 8080: add at /spec/ports when it has
\* more than one port, replace at /spec/ports/0 when it has none or one.
C8_ServicePortPatch ==
    \A w \in Workers :
        (Answered(wk[w]) /\ IsServiceKind(wk[w]) /\ wk[w].required = "yes") =>
            LET n == Len(wk[w].req.Object.Spec.Ports)
                patch == wk[w].out.Patch
            IN  /\ wk[w].out.Allowed
                /\ Len(patch) = 1
                /\ patch[1].value.Name = "tyk-sidecar"
                /\ patch[1].value.Port = 8080
                /\ n > 1 => (patch[1].op = "add" /\ patch[1].path = "/spec/ports")
                /\ n <= 1 => (patch[1].op = "replace" /\ patch[1].path = "/spec/ports/0")

\* a Service with two ports has been answered with the add
C8_Witness ==
    \E w \in Workers :
        /\ Answered(wk[w])
        /\ IsServiceKind(wk[w])
        /\ wk[w].required = "yes"
        /\ Len(wk[w].req.Object.Spec.Ports) = 2
        /\ wk[w].out.Patch[1].op = "add"

\* the Pod of this call came with bool.service.tyk.io/enabled: maybe and the
\* policy check sent it to mutation
C10Pod(me) ==
    /\ Answered(me)
    /\ IsPodKind(me)
    /\ me.required = "yes"
    /\ KeyEnabled \in DOMAIN me.req.Object.Annotations
    /\ me.req.Object.Annotations[KeyEnabled] = sMaybe

Carries(msg, e) == \E i \in 1..Len(msg) : msg[i] = e

C10Processed(me) ==
    /\ cfg.CreateRoutes
    /\ "app" \in DOMAIN me.obj.Labels
    /\ AdmissionWebhookAnnotationInboundServiceIDKey \notin DOMAIN me.req.Object.Annotations
    /\ Len(me.calls) >= 1
    /\ me.calls[1] = [op |-> "GetBySlug", arg |-> <<me.obj.Labels["app"], "-inbound">>,
                      ok |-> FALSE]

C12_EveryResponseCarriesUID ==
    \A w \in Workers : Answered(wk[w]) => wk[w].out.UID = wk[w].uid

\* C12 for the requests that decoded: the response carries the request's UID
\* whatever the outcome (skipped, patched, unsupported kind, any error of the
\* Pod and Service handlers).
C12_DecodedResponseCarriesUID ==
    \A w \in Workers :
        (Answered(wk[w]) /\ wk[w].req.decodes) => wk[w].out.UID = wk[w].uid

\* the second request decoded, met an error in its handler, and its answer
\* has been written with that request's UID
C12_Witness ==
    \E w \in Workers :
        /\ Answered(wk[w])
        /\ wk[w].req.decodes
        /\ wk[w].uid = 2
        /\ wk[w].out.UID = 2
        /\ ~wk[w].out.Allowed
        /\ wk[w].errs # <<>>

\* every outbound call of the admission call succeeded
AllCallsOk(me) == \A i \in 1..Len(me.calls) : me.calls[i].ok

\* an earlier admission call for the same app label and namespace went
\* through: when this call came in the gateway held one route under each of
\* the two slugs, the inbound one with this namespace's host name, and with
\* mesh-TLS enabled each of the two had its certificate
EarlierCallWentThrough(me) ==
    /\ "app" \in DOMAIN me.obj.Labels
    /\ Cardinality(BySlug(me.gw0, slugInbound(me.obj))) = 1
    /\ Cardinality(BySlug(me.gw0, slugMesh(me.obj))) = 1
    /\ \A i \in BySlug(me.gw0, slugInbound(me.obj)) :
            /\ me.gw0.apis[i].Domain = hName(me.obj)
            /\ Len(me.gw0.apis[i].Certificates) = IF cfg.EnableMeshTLS THEN 1 ELSE 0
    /\ \A i \in BySlug(me.gw0, slugMesh(me.obj)) :
            Len(me.gw0.apis[i].Certificates) = IF cfg.EnableMeshTLS THEN 1 ELSE 0

\* the second of two successive calls for an opted-in, not yet injected Pod
\* of the same workload has been answered, all its outbound calls succeeding
C13Repeat(me) ==
    /\ Answered(me)
    /\ IsPodKind(me)
    /\ me.required = "yes"
    /\ cfg.CreateRoutes
    /\ AdmissionWebhookAnnotationInboundServiceIDKey \notin DOMAIN me.req.Object.Annotations
    /\ EarlierCallWentThrough(me)
    /\ AllCallsOk(me)
    /\ me.out.Allowed

\* C13: the second call for the same workload creates no new gateway route
\* and leaves every API definition's certificate list as the first call left
\* it, with mesh-TLS enabled or disabled.
C13_RepeatedCallIdempotent ==
    \A w \in Workers :
        C13Repeat(wk[w]) =>
            /\ Len(gw.apis) = Len(wk[w].gw0.apis)
            /\ \A i \in 1..Len(wk[w].gw0.apis) :
                    gw.apis[i].Certificates = wk[w].gw0.apis[i].Certificates

\* the second call for the workload found both routes, created none, and
\* appended a second certificate to the inbound definition
C13_Witness ==
    \E w \in Workers :
        /\ C13Repeat(wk[w])
        /\ cfg.EnableMeshTLS
        /\ Len(gw.apis) = Len(wk[w].gw0.apis)
        /\ \E i \in BySlug(gw, slugInbound(wk[w].obj)) :
                Len(gw.apis[i].Certificates) = 2

\* C14: the loaded template is read-only while requests are served: no step
\* of any admission call changes its containers, init-containers or their
\* environment-variable lists.
C14_TemplateReadOnly == [][tpl' = tpl]_vars

\* a Pod has been patched and the template no longer is what was loaded: its
\* tyk-mesh container carries the tag of that Pod
C14_Witness ==
    \E w \in Workers :
        /\ Answered(wk[w])
        /\ IsPodKind(wk[w])
        /\ wk[w].out.Allowed
        /\ wk[w].out.Patch # <<>>
        /\ tpl \notin Templates
        /\ \E e \in 1..Len(tpl.Containers[1].Env) :
                tpl.Containers[1].Env[e] = [Name |-> tagVarName, Value |-> tagsOf(wk[w].obj)]

----------------------------------------------------------------------------
(* Properties of route registration, under Spec *)

\* the calls of the admission call that succeeded, of one operation
Succeeded(me, op) == {i \in 1..Len(me.calls) : me.calls[i].op = op /\ me.calls[i].ok}

\* the CreateService calls for slug that succeeded in the admission call
Created(me, slug) ==
    {i \in 1..Len(me.calls) :
        me.calls[i] = [op |-> "CreateService", arg |-> slug, ok |-> TRUE]}

\* the calls of one operation for one slug in the admission call
CallsOf(me, op, slug) ==
    {i \in 1..Len(me.calls) : me.calls[i].op = op /\ me.calls[i].arg = slug}

\* the annotation that records the ID of the route under a slug of this Pod
IDKeyOf(me, slug) ==
    IF slug = slugInbound(me.obj) THEN AdmissionWebhookAnnotationInboundServiceIDKey
    ELSE AdmissionWebhookAnnotationMeshServiceIDKey

\* C19 for one slug of one admission call: at most one lookup and one create;
\* a create comes right after the failed lookup of its slug and every failed
\* lookup is followed by the create; a lookup that succeeded records the ID
\* of a route the gateway holds and adds none; a create that succeeded adds
\* one route to those the gateway held under the slug.
RoutedOnce(me, slug) ==
    /\ Cardinality(CallsOf(me, "GetBySlug", slug)) <= 1
    /\ Cardinality(CallsOf(me, "CreateService", slug)) <= 1
    /\ \A i \in CallsOf(me, "CreateService", slug) :
            /\ i > 1
            /\ me.calls[i - 1] = [op |-> "GetBySlug", arg |-> slug, ok |-> FALSE]
    /\ \A i \in CallsOf(me, "GetBySlug", slug) :
            IF me.calls[i].ok
            THEN /\ CallsOf(me, "CreateService", slug) = {}
                 /\ IDKeyOf(me, slug) \in DOMAIN me.obj.Annotations
                 /\ \E d \in BySlug(me.gw0, slug) :
                        me.gw0.apis[d].Id = me.obj.Annotations[IDKeyOf(me, slug)]
                 /\ BySlug(gw, slug) = BySlug(me.gw0, slug)
            ELSE IF i = Len(me.calls) THEN me.pc \in {"createInbound", "createMesh"}
            ELSE me.calls[i + 1].op = "CreateService" /\ me.calls[i + 1].arg = slug
    /\ Cardinality(BySlug(gw, slug))
            = Cardinality(BySlug(me.gw0, slug))
                + Cardinality(CallsOf(me, "CreateService", slug) \cap Succeeded(me, "CreateService"))

\* C19: in the route-registration workflow, for the inbound slug and then the
\* mesh slug, CreateService is called if and only if GetBySlug for that slug
\* returned an error, and at most once; a successful lookup records the ID and
\* adds no route; a failed lookup of an existing route adds a duplicate.
C19_CreateIffLookupFailed ==
    \A w \in Workers :
        LET me == wk[w]
        IN  (me.routes.st # "none" /\ "app" \in DOMAIN me.obj.Labels) =>
                /\ RoutedOnce(me, slugInbound(me.obj))
                /\ RoutedOnce(me, slugMesh(me.obj))
                /\ \A i \in CallsOf(me, "GetBySlug", slugMesh(me.obj)) :
                        /\ CallsOf(me, "GetBySlug", slugInbound(me.obj)) # {}
                        /\ \A j \in CallsOf(me, "GetBySlug", slugInbound(me.obj))
                                \cup CallsOf(me, "CreateService", slugInbound(me.obj)) : j < i

\* the lookup of a route the gateway holds failed, CreateService was called,
\* and two routes stand under the slug
C19_Witness ==
    \E w \in Workers :
        /\ wk[w].routes.st = "returned"
        /\ "app" \in DOMAIN wk[w].obj.Labels
        /\ LET slug == slugInbound(wk[w].obj)
           IN  /\ BySlug(wk[w].gw0, slug) # {}
               /\ Created(wk[w], slug) # {}
               /\ Cardinality(BySlug(gw, slug)) = 2
               /\ CallsOf(wk[w], "GetBySlug", slugMesh(wk[w].obj))
                       \cap Succeeded(wk[w], "GetBySlug") # {}

----------------------------------------------------------------------------
(* Properties of the certificate saga, under Spec *)

SagaOps == {"GetByObjectID", "GenerateCert", "CreateCertificate", "StoreCert", "UpdateAPI"}
IsSagaCall(c) == c.op \in SagaOps

\* the calls of the certificate saga the admission call has made, in order
SagaCalls(me) == SelectSeq(me.calls, IsSagaCall)

\* the steps for one definition when a certificate is generated for it
GeneratedSteps ==
    <<"GetByObjectID", "GenerateCert", "CreateCertificate", "StoreCert",
      "GetByObjectID", "UpdateAPI">>

\* the steps for one definition whose certificate ID is given
PresetSteps == <<"GetByObjectID", "UpdateAPI">>

IsPrefix(s, t) == Len(s) <= Len(t) /\ s = SubSeq(t, 1, Len(s))

\* the steps that name a definition name this one
StepsAreFor(cs, id) ==
    \A i \in 1..Len(cs) : cs[i].op \in {"GetByObjectID", "UpdateAPI"} => cs[i].arg = id

Ops(cs) == [i \in 1..Len(cs) |-> cs[i].op]

\* C16: with mesh-TLS disabled an admission call makes no call of the saga
\* and leaves the certificate stores alone; with mesh-TLS enabled and no
\* preset certificate ID the saga's calls are, in order: resolve domain,
\* generate, upload, store reference, read and update for the inbound
\* definition, and only then the same six for the mesh definition.
C16_SagaOrder ==
    \A w \in Workers :
        LET me == wk[w]
            cs == SagaCalls(me)
            n == Min({Len(cs), Len(GeneratedSteps)})
        IN  /\ ~cfg.EnableMeshTLS =>
                    /\ cs = <<>>
                    /\ me.pc # "idle" => (castore = me.ca0 /\ gw.certs = me.gw0.certs)
            /\ (cfg.EnableMeshTLS /\ cfg.MeshCertificateID = Empty /\ cs # <<>>) =>
                    /\ IsPrefix(Ops(cs), GeneratedSteps \o GeneratedSteps)
                    /\ AdmissionWebhookAnnotationInboundServiceIDKey
                            \in DOMAIN me.obj.Annotations
                    /\ StepsAreFor(SubSeq(cs, 1, n),
                            me.obj.Annotations[AdmissionWebhookAnnotationInboundServiceIDKey])
                    /\ Len(cs) > n =>
                            /\ AdmissionWebhookAnnotationMeshServiceIDKey
                                    \in DOMAIN me.obj.Annotations
                            /\ StepsAreFor(SubSeq(cs, n + 1, Len(cs)),
                                    me.obj.Annotations[AdmissionWebhookAnnotationMeshServiceIDKey])
                            /\ \A i \in 1..n : cs[i].ok

\* a call has gone through both sagas, twelve calls in all, and is answered
C16_Witness ==
    \E w \in Workers :
        /\ Answered(wk[w])
        /\ cfg.EnableMeshTLS
        /\ cfg.MeshCertificateID = Empty
        /\ Len(SagaCalls(wk[w])) = 12
        /\ AllCallsOk(wk[w])
        /\ wk[w].out.Allowed

\* the certificate list of the definition id in gateway g (none: <<>>)
CertificatesOf(g, id) ==
    IF ByObjectID(g, id) = {} THEN <<>>
    ELSE g.apis[Min(ByObjectID(g, id))].Certificates

\* the saga ran to its end in this admission call
SagaCompleted(me) ==
    /\ IsPodKind(me)
    /\ me.required = "yes"
    /\ me.pc \in {"patch", "marshal", "respond", "done"}
    /\ me.errs = <<>>
    /\ cfg.EnableMeshTLS

\* C17: with a preset mesh certificate ID the saga makes its six calls for
\* the inbound definition and only GetByObjectID and UpdateAPI for the mesh
\* definition (no GenerateCert, CreateCertificate or StoreCert); when it has
\* run to its end the mesh definition's list is the one it had with exactly
\* the preset ID appended, and the inbound definition's list is the one it
\* had with a certificate uploaded in this call appended, never the preset ID.
C17_PresetCertForMeshOnly ==
    \A w \in Workers :
        LET me == wk[w]
            cs == SagaCalls(me)
            ann == me.obj.Annotations
            inID == ann[AdmissionWebhookAnnotationInboundServiceIDKey]
            meshID == ann[AdmissionWebhookAnnotationMeshServiceIDKey]
            inCerts == CertificatesOf(gw, inID)
        IN  (cfg.EnableMeshTLS /\ cfg.MeshCertificateID # Empty) =>
                /\ IsPrefix(Ops(cs), GeneratedSteps \o PresetSteps)
                /\ SagaCompleted(me) =>
                    /\ Len(cs) = Len(GeneratedSteps) + Len(PresetSteps)
                    /\ CertificatesOf(gw, meshID)
                            = Append(CertificatesOf(me.gw0, meshID), cfg.MeshCertificateID)
                    /\ Len(inCerts) = Len(CertificatesOf(me.gw0, inID)) + 1
                    /\ SubSeq(inCerts, 1, Len(inCerts) - 1) = CertificatesOf(me.gw0, inID)
                    /\ inCerts[Len(inCerts)] \in gw.certs \ me.gw0.certs
                    /\ inCerts[Len(inCerts)] # cfg.MeshCertificateID

\* a call with a preset mesh certificate ID has run both sagas and is answered
C17_Witness ==
    \E w \in Workers :
        /\ Answered(wk[w])
        /\ SagaCompleted(wk[w])
        /\ cfg.MeshCertificateID # Empty
        /\ wk[w].out.Allowed
        /\ Len(SagaCalls(wk[w])) = 8

\* a call of the certificate saga failed in this admission call
SagaFailed(me) == \E i \in 1..Len(me.calls) : IsSagaCall(me.calls[i]) /\ ~me.calls[i].ok

\* C18: when a call of the saga fails it is the last outbound call of the
\* admission call, the response is the denial that carries the error, and
\* what the earlier steps did stays: every certificate uploaded is still in
\* the gateway's store, every reference stored is still in the CA store, and
\* every definition updated keeps its new certificate.
C18_SagaFailureLeavesEffects ==
    \A w \in Workers :
        LET me == wk[w]
        IN  SagaFailed(me) =>
                /\ \A i \in 1..Len(me.calls) : ~me.calls[i].ok /\ IsSagaCall(me.calls[i])
                        => i = Len(me.calls)
                /\ me.pc \in {"respond", "done"}
                /\ ~me.resp.Allowed
                /\ me.resp.Message # <<>>
                /\ me.resp.Patch = <<>>
                /\ me.gw0.certs \subseteq gw.certs
                /\ Cardinality(gw.certs \ me.gw0.certs)
                        = Cardinality(Succeeded(me, "CreateCertificate"))
                /\ castore = me.ca0 \cup {me.calls[i].arg : i \in Succeeded(me, "StoreCert")}
                /\ Len(gw.apis) >= Len(me.gw0.apis)
                /\ \A i \in Succeeded(me, "UpdateAPI") :
                        Len(CertificatesOf(gw, me.calls[i].arg))
                            = Len(CertificatesOf(me.gw0, me.calls[i].arg)) + 1

\* a call has been denied after StoreCert failed, and the certificate it had
\* uploaded is in the gateway's store
C18_Witness ==
    \E w \in Workers :
        /\ Answered(wk[w])
        /\ ~wk[w].out.Allowed
        /\ wk[w].calls # <<>>
        /\ wk[w].calls[Len(wk[w].calls)].op = "StoreCert"
        /\ ~wk[w].calls[Len(wk[w].calls)].ok
        /\ wk[w].saga.certID \in gw.certs \ wk[w].gw0.certs
        /\ wk[w].saga.certID \notin castore

----------------------------------------------------------------------------
(* Termination of an admission call, under Spec *)

\* the call has ended Skipped or Responded: a response has been written
EndedAnswered(me) == me.pc = "done" /\ me.out.kind \in {"review", "http"}

\* no operation is issued again after it failed, a failed call other than a
\* lookup by slug is the last call made, and an error puts the call on its
\* way to the response
NoRetry(me) ==
    /\ \A i, j \in 1..Len(me.calls) :
            (i < j /\ ~me.calls[i].ok) =>
                ~(me.calls[j].op = me.calls[i].op /\ me.calls[j].arg = me.calls[i].arg)
    /\ \A i \in 1..Len(me.calls) :
            (~me.calls[i].ok /\ me.calls[i].op # "GetBySlug") =>
                /\ i = Len(me.calls)
                /\ me.pc \in {"respond", "done"}
    /\ Len(me.errs) <= 1
    /\ me.errs # <<>> => me.pc \in {"respond", "done"}

\* a step of the admission call worker w is serving
CallStep(w) ==
    \/ Serve(w)
    \/ processServiceMutations(w)
    \/ processPodMutations(w)
    \/ createServiceRoutes(w)
    \/ GetBySlugInbound(w)
    \/ CreateServiceInbound(w)
    \/ GetBySlugMesh(w)
    \/ CreateServiceMesh(w)
    \/ handleMeshTLS(w)
    \/ SagaResolveDomain(w)
    \/ SagaGenerateCert(w)
    \/ SagaUpload(w)
    \/ SagaStoreCert(w)
    \/ SagaGetDef(w)
    \/ SagaUpdateAPI(w)
    \/ createPatch(w)
    \/ marshalPatch(w)
    \/ Respond(w)

\* the most outbound calls one admission call makes: two lookups, two
\* creates, and six calls of the saga for each of the two definitions
MostCalls == 4 + 2 * Len(GeneratedSteps)

\* C20: every admission call received ends Skipped or Responded after
\* finitely many steps when each outbound call returns (until it has ended
\* it always has a step to take, it makes no more than sixteen outbound
\* calls, and when it has ended a response has been written), and within a
\* call nothing is retried: the first failure leads directly to the response.
C20_TerminatesWithoutRetry ==
    \A w \in Workers :
        /\ wk[w].pc \notin {"idle", "done"} => ENABLED CallStep(w)
        /\ Len(wk[w].calls) <= MostCalls
        /\ wk[w].pc = "done" => EndedAnswered(wk[w])
        /\ NoRetry(wk[w])

\* a review that decoded without its request has ended the call with nothing
\* written
C20_Witness ==
    \E w \in Workers :
        /\ wk[w].pc = "done"
        /\ wk[w].req.decodes
        /\ ~wk[w].req.hasRequest
        /\ wk[w].out.kind = "panic"

----------------------------------------------------------------------------
(* Properties of concurrent admission calls, under SpecConcurrent *)

\* the slugs the calls under way have looked up
SlugsInFlight ==
    UNION {{wk[w].calls[i].arg : i \in {j \in 1..Len(wk[w].calls) :
                                            wk[w].calls[j].op = "GetBySlug"}} :
           w \in Workers}

\* C15: nothing serialises lookup-then-create: every CreateService that
\* succeeds adds a route of its own, whatever the other call has done in the
\* meantime, so the gateway holds under each slug at least as many routes as
\* the calls under way have created for it, and two calls that both missed
\* the slug leave two routes under it.
C15_EveryCreateAddsARoute ==
    \A slug \in SlugsInFlight :
        /\ Cardinality(BySlug(gw, slug))
               >= Cardinality({w \in Workers : Created(wk[w], slug) # {}})
        /\ \A w \in Workers : Cardinality(Created(wk[w], slug)) <= 1

\* two calls under way for Pods with the same app label both got a miss for
\* the inbound slug while the gateway held nothing under it, both called
\* CreateService, and the gateway holds two routes under the slug
C15_Witness ==
    /\ wk[1].required = "yes"
    /\ wk[2].required = "yes"
    /\ "app" \in DOMAIN wk[1].obj.Labels
    /\ "app" \in DOMAIN wk[2].obj.Labels
    /\ LET slug == slugInbound(wk[1].obj)
       IN  /\ slug = slugInbound(wk[2].obj)
           /\ slug \in wk[1].routes.missed
           /\ slug \in wk[2].routes.missed
           /\ Created(wk[1], slug) # {}
           /\ Created(wk[2], slug) # {}
           /\ Cardinality(BySlug(gw, slug)) = 2

----------------------------------------------------------------------------
(* Properties of the annotation map, under Spec *)

\* a mutation step has written into the annotations of the object of the call
\* under way: the status, the inject key or a service ID
AnnotationsWritten(me) ==
    /\ me.obj.Kind # "none"
    /\ me.obj.Annotations # me.req.Object.Annotations

\* C21: the annotation map of a Pod or a Service is non-nil whenever a
\* mutation step writes into it: an object decoded with no annotations is not
\* required by the policy check, so its call never reaches a writing step
\* (and never ends in the panic of a write into a nil map).
C21_AnnotationsNonNilWhenWritten ==
    \A w \in Workers :
        LET me == wk[w]
        IN  /\ me.pc # "panic"
            /\ me.required = "yes" => ~me.req.Object.AnnotationsNil
            /\ AnnotationsWritten(me) => ~me.req.Object.AnnotationsNil
            /\ (me.req.objectDecodes /\ me.req.Object.AnnotationsNil
                    /\ me.pc \in {"respond", "done"} /\ me.req.Kind \in {kPod, kService})
               => /\ me.required = "no"
                  /\ me.obj = me.req.Object

\* a Pod call has set the status, deleted the inject key and added both
\* service IDs, all into the non-nil map the Pod was decoded with
C21_Witness ==
    \E w \in Workers :
        LET me == wk[w]
        IN  /\ IsPodKind(me)
            /\ me.required = "yes"
            /\ AnnotationsWritten(me)
            /\ ~me.req.Object.AnnotationsNil
            /\ Lookup(me.obj.Annotations, AdmissionWebhookAnnotationStatusKey) = sInjected
            /\ AdmissionWebhookAnnotationInjectKey \notin DOMAIN me.obj.Annotations
            /\ AdmissionWebhookAnnotationInboundServiceIDKey \in DOMAIN me.obj.Annotations
            /\ AdmissionWebhookAnnotationMeshServiceIDKey \in DOMAIN me.obj.Annotations
            /\ AdmissionWebhookAnnotationInboundServiceIDKey
                   \notin DOMAIN me.req.Object.Annotations

----------------------------------------------------------------------------
(* The tag variable of the injected sidecar, under SpecConcurrent *)

\* the call has returned a response with the patch of a Pod
PodPatched(me) ==
    /\ me.pc \in {"respond", "done"}
    /\ IsPodKind(me)
    /\ me.resp.kind = "review"
    /\ me.resp.Patch # <<>>

\* the tyk-mesh containers of the spec the patch puts in place
MeshContainers(me) ==
    LET cs == me.resp.Patch[1].value.Containers
    IN  {cs[j] : j \in {k \in 1..Len(cs) : ToLower(cs[k].Name) = sTykMesh}}

\* the values of the tag variable in a container's environment, in order
TagValues(c) ==
    LET at == {ei \in 1..Len(c.Env) : c.Env[ei].Name = tagVarName}
    IN  [ei \in at |-> c.Env[ei].Value]

\* C22: whatever the interleaving of concurrent Pod admission calls, the
\* tyk-mesh container in the patch returned for a Pod has exactly one
\* TYK_GW_DBAPPCONFOPTIONS_TAGS variable, whose value is mesh,<service-name>
\* of that same Pod (its app label, or its placeholder name), never that of
\* the Pod of another request.
C22_TagIsOfOwnPod ==
    \A w \in Workers :
        PodPatched(wk[w]) =>
            /\ MeshContainers(wk[w]) # {}
            /\ \A c \in MeshContainers(wk[w]) :
                /\ Cardinality(DOMAIN TagValues(c)) = 1
                /\ \A ei \in DOMAIN TagValues(c) :
                        TagValues(c)[ei] = tagsOf(wk[w].req.Object)

\* two calls at once for Pods of different service names have both returned
\* their patch
C22_Witness ==
    /\ PodPatched(wk[1])
    /\ PodPatched(wk[2])
    /\ tagsOf(wk[1].req.Object) # tagsOf(wk[2].req.Object)
    /\ MeshContainers(wk[1]) # {}
    /\ MeshContainers(wk[2]) # {}

----------------------------------------------------------------------------
(* Repeated admission of a patched object, under Spec *)

\* the call under way is for the object an earlier call's patch has left, and
\* the policy check has been made
LaterCallDecided(me) ==
    /\ me.again
    /\ me.required # "unknown"

\* C23: an object is injected at most once: after the patch a mutating call
\* returned is applied, a later admission call for the resulting Pod or
\* Service is skipped by the policy check and returns no patch, so neither
\* the template's containers nor the sidecar port are added a second time.
C23_InjectedAtMostOnce ==
    \A w \in Workers :
        LaterCallDecided(wk[w]) =>
            /\ wk[w].required = "no"
            /\ wk[w].pc \in {"respond", "done"} => wk[w].resp = AllowedWith(<<>>)

\* the later call for a patched Service, one that still has a port for the
\* patch to replace, has been answered
C23_Witness ==
    \E w \in Workers :
        /\ LaterCallDecided(wk[w])
        /\ IsServiceKind(wk[w])
        /\ wk[w].pc = "done"
        /\ wk[w].out.kind = "review"

----------------------------------------------------------------------------
(* The service IDs the TLS step needs, under Spec *)

\* handleMeshTLS has been entered with mesh-TLS enabled and has returned:
\* the Pod's call got past the routes, or made none
TLSStepDone(me) ==
    /\ IsPodKind(me)
    /\ me.required = "yes"
    /\ cfg.EnableMeshTLS
    /\ me.routes.err = <<>>
    /\ me.pc \in {"patch", "marshal", "respond", "done"}

HasInboundID(me) == AdmissionWebhookAnnotationInboundServiceIDKey \in DOMAIN me.obj.Annotations
HasMeshID(me) == AdmissionWebhookAnnotationMeshServiceIDKey \in DOMAIN me.obj.Annotations

\* the calls that issue, store or attach a certificate
CertOps == {"GenerateCert", "CreateCertificate", "StoreCert", "UpdateAPI"}
CertCalls(me) == {i \in 1..Len(me.calls) : me.calls[i].op \in CertOps}

\* the TLS step returned an error and the response, once built, denies
TLSDenied(me) ==
    /\ me.errs # <<>>
    /\ me.resp.kind = "review"
    /\ ~me.resp.Allowed
    /\ me.resp.Patch = <<>>

\* the Pod is allowed only with both IDs, and without the inbound-service-id
\* the call is denied before any call of the saga
C24Common(me) ==
    /\ me.errs = <<>> => (HasInboundID(me) /\ HasMeshID(me))
    /\ ~HasInboundID(me) =>
            /\ TLSDenied(me)
            /\ SagaCalls(me) = <<>>
            /\ gw.certs = me.gw0.certs
            /\ castore = me.ca0

\* C24: with mesh-TLS enabled a Pod is allowed only if both service IDs are
\* in its annotations when the TLS step starts: without the
\* inbound-service-id the call is denied before any CA or certificate call,
\* and with only the mesh-service-id absent it is denied without any
\* certificate having been issued or attached.
C24_BothIDsOrNoCertificate ==
    \A w \in Workers :
        LET me == wk[w]
        IN  TLSStepDone(me) =>
                /\ C24Common(me)
                /\ (HasInboundID(me) /\ ~HasMeshID(me)) =>
                        /\ TLSDenied(me)
                        /\ CertCalls(me) = {}
                        /\ gw = me.gw0

\* C24 as the code has it: with only the mesh-service-id absent the call is
\* denied as well, but the test of the mesh-service-id comes after the saga
\* of the inbound definition: the calls made are those of the inbound
\* definition alone, and when all six went through, that definition has
\* received a certificate issued in this call and the denial is the one for
\* the missing mesh ID.
C24_MeshIDTestedAfterInboundSaga ==
    \A w \in Workers :
        LET me == wk[w]
            cs == SagaCalls(me)
            inID == me.obj.Annotations[AdmissionWebhookAnnotationInboundServiceIDKey]
            inCerts == CertificatesOf(gw, inID)
        IN  TLSStepDone(me) =>
                /\ C24Common(me)
                /\ (HasInboundID(me) /\ ~HasMeshID(me)) =>
                        /\ TLSDenied(me)
                        /\ cs # <<>>
                        /\ IsPrefix(Ops(cs), GeneratedSteps)
                        /\ StepsAreFor(cs, inID)
                        /\ (Len(cs) = Len(GeneratedSteps) /\ cs[Len(cs)].ok) =>
                                /\ me.errs = <<<<"can't generate server cert without an mesh API ID">>>>
                                /\ Len(inCerts) = Len(CertificatesOf(me.gw0, inID)) + 1
                                /\ inCerts[Len(inCerts)] \in gw.certs \ me.gw0.certs

\* a Pod that arrived with an inbound-service-id the gateway knows and no
\* mesh-service-id has been denied after the six calls for the inbound
\* definition went through
C24_Witness ==
    \E w \in Workers :
        LET me == wk[w]
        IN  /\ TLSStepDone(me)
            /\ me.pc = "done"
            /\ HasInboundID(me)
            /\ ~HasMeshID(me)
            /\ Len(SagaCalls(me)) = Len(GeneratedSteps)
            /\ AllCallsOk(me)
            /\ TLSDenied(me)

====
